---- MODULE Spec2Model ----
(***************************************************************************)
(* Model of the testgrid updater (grid assembler AppendColumn and the      *)
(* concurrent group driver ReadBuilds).                                    *)
(*                                                                         *)
(* Strings that the program inspects (row names, build prefixes, metadata  *)
(* values) are sequences of one-character strings; map keys that are only  *)
(* compared for equality (metadata keys, metric names, headers) are plain  *)
(* strings.  Go maps are functions; a Go pointer to a state.Row is an      *)
(* index into heap.                                                        *)
(***************************************************************************)
EXTENDS Integers, Sequences, FiniteSets, TLC

\* ------------------------------------------------------------------ bounds
MaxCols == 3      \* columns fed to the grid in SpecGrid
MaxRecs == 3      \* test records per column in SpecGrid
MaxBuilds == 3    \* build directories listed under the group prefix
MaxWorkers == 2   \* largest value of the concurrency argument

\* ----------------------------------------------------------------- strings
\* The bytes used by the model, in ASCII order.
Chars ==
  <<" ", "+", "-", ".", "/", "0", "1", "2", "3", "4", "5", "6", "7", "8", "9",
    "F", "O", "R", "S", "T", "[", "]",
    "a", "b", "c", "d", "e", "f", "g", "h", "i", "j", "k", "l", "m", "n", "o",
    "p", "q", "r", "s", "t", "u", "v", "w", "x", "y", "z">>

\* byte value order of a character (its position in Chars)
Code(c) == CHOOSE i \in 1..Len(Chars) : Chars[i] = c

isdigit(c) == c \in {"0", "1", "2", "3", "4", "5", "6", "7", "8", "9"}

Digit(d) == Chars[Code("0") + d]

\* fmt.Sprintf("%d", n) for n >= 0
RECURSIVE Itoa(_)
Itoa(n) == IF n < 10 THEN <<Digit(n)>> ELSE Itoa(n \div 10) \o <<Digit(n % 10)>>

\* bytewise s < t for strings of equal length
RECURSIVE BytesLess(_, _)
BytesLess(s, t) ==
  IF s = <<>> THEN FALSE
  ELSE IF Head(s) # Head(t) THEN Code(Head(s)) < Code(Head(t))
  ELSE BytesLess(Tail(s), Tail(t))

\* index of the first position >= i of s that holds no character of set D
\* (Len(s)+1 when there is none)
RECURSIVE SkipWhile(_, _, _)
SkipWhile(s, i, D) ==
  IF i <= Len(s) /\ s[i] \in D THEN SkipWhile(s, i + 1, D) ELSE i

Digits == {"0", "1", "2", "3", "4", "5", "6", "7", "8", "9"}

\* sortorder.NaturalLess(str1, str2), comparing from positions i1, i2
RECURSIVE NaturalLessFrom(_, _, _, _)
NaturalLessFrom(str1, i1, str2, i2) ==
  IF ~(i1 <= Len(str1) /\ i2 <= Len(str2))
  THEN Len(str1) < Len(str2)   \* identical so far: the one that continues is last
  ELSE
    LET c1 == str1[i1]
        c2 == str2[i2]
        dig1 == isdigit(c1)
        dig2 == isdigit(c2)
    IN IF dig1 # dig2 THEN dig1            \* digits before other characters
       ELSE IF ~dig1
       THEN IF c1 # c2 THEN Code(c1) < Code(c2)
            ELSE NaturalLessFrom(str1, i1 + 1, str2, i2 + 1)
       ELSE
         LET nonZero1 == SkipWhile(str1, i1, {"0"})     \* eat zeros
             nonZero2 == SkipWhile(str2, i2, {"0"})
             e1 == SkipWhile(str1, nonZero1, Digits)    \* eat all digits
             e2 == SkipWhile(str2, nonZero2, Digits)
             len1 == e1 - nonZero1
             len2 == e2 - nonZero2
             nr1 == SubSeq(str1, nonZero1, e1 - 1)
             nr2 == SubSeq(str2, nonZero2, e2 - 1)
         IN IF len1 # len2 THEN len1 < len2
            ELSE IF nr1 # nr2 THEN BytesLess(nr1, nr2)
            ELSE IF (nonZero1 - i1) # (nonZero2 - i2)
                 THEN (nonZero1 - i1) < (nonZero2 - i2)   \* fewer zeros first
            ELSE NaturalLessFrom(str1, e1, str2, e2)

NaturalLess(str1, str2) == NaturalLessFrom(str1, 1, str2, 1)

\* ------------------------------------------------------------- Go helpers
Repeat(x, count) == [i \in 1..count |-> x]

\* the string literals of the program
EmptyStr == <<>>
OverallStr == <<"O", "v", "e", "r", "a", "l", "l">>
MissingStr == <<"m", "i", "s", "s", "i", "n", "g">>

Range(f) == {f[x] : x \in DOMAIN f}

\* all orders in which a Go range loop can visit the keys of a map
KeyOrders(S) ==
  {o \in [1..Cardinality(S) -> S] : \A i, j \in DOMAIN o : i # j => o[i] # o[j]}

\* ------------------------------------------------------------ data model
\* state.Row_Result, the wire values of the result enumeration
Row_Result ==
  [NO_RESULT |-> 0, PASS |-> 1, PASS_WITH_ERRORS |-> 2, PASS_WITH_SKIPS |-> 3,
   RUNNING |-> 4, FAIL |-> 12, FLAKY |-> 13]

elapsedKey == "seconds-elapsed"

\* var noResult = Row{Result: state.Row_NO_RESULT}
noResult ==
  [Result |-> Row_Result.NO_RESULT, Metrics |-> <<>>, Metadata |-> <<>>,
   Message |-> EmptyStr, Icon |-> EmptyStr]

\* &state.Row{Name: name, Id: target}
NewStateRow(name, target) ==
  [Name |-> name, Id |-> target, Results |-> <<>>, CellIds |-> <<>>,
   Messages |-> <<>>, Icons |-> <<>>, Metrics |-> <<>>]

\* &state.Metric{Name: k}
NewMetric(k) == [Name |-> k, Indices |-> <<>>, Values |-> <<>>]

\* ------------------------------------------------------------ RLE appends
\* AppendMetric forgetting the value when it extends the last span
AppendMetricDropValue(metric, idx, value) ==
  LET l == Len(metric.Indices)
  IN IF l = 0 \/ metric.Indices[l - 1] + metric.Indices[l] # idx
     THEN [metric EXCEPT !.Indices = metric.Indices \o <<idx, 1>>,
                         !.Values = Append(metric.Values, value)]
     ELSE [metric EXCEPT !.Indices = [metric.Indices EXCEPT ![l] = @ + 1]]

AppendMetric(metric, idx, value) ==
  LET l == Len(metric.Indices)
  IN [metric EXCEPT
        !.Indices = IF l = 0 \/ metric.Indices[l - 1] + metric.Indices[l] # idx
                    THEN metric.Indices \o <<idx, 1>>
                    ELSE [metric.Indices EXCEPT ![l] = @ + 1],
        !.Values = Append(metric.Values, value)]

\* position of the metric called name in row.Metrics, 0 for nil
FindMetric(row, name) ==
  IF \E i \in 1..Len(row.Metrics) : row.Metrics[i].Name = name
  THEN CHOOSE i \in 1..Len(row.Metrics) :
         /\ row.Metrics[i].Name = name
         /\ \A j \in 1..(i - 1) : row.Metrics[j].Name # name
  ELSE 0

\* AppendResult adding messages and icons for NO_RESULT cells as well
AppendResultAll(row, rowResult, count) ==
  LET latest == rowResult.Result
      n == Len(row.Results)
  IN [row EXCEPT
        !.Results = IF n = 0 \/ row.Results[n - 1] # latest
                    THEN row.Results \o <<latest, count>>
                    ELSE [row.Results EXCEPT ![n] = @ + count],
        !.CellIds = @ \o Repeat(EmptyStr, count),
        !.Messages = @ \o Repeat(rowResult.Message, count),
        !.Icons = @ \o Repeat(rowResult.Icon, count)]

\* AppendResult starting a new group even when the last one has the result
AppendResultNoMerge(row, rowResult, count) ==
  LET skip == rowResult.Result = Row_Result.NO_RESULT
  IN [row EXCEPT
        !.Results = row.Results \o <<rowResult.Result, count>>,
        !.CellIds = @ \o Repeat(EmptyStr, count),
        !.Messages = IF skip THEN @ ELSE @ \o Repeat(rowResult.Message, count),
        !.Icons = IF skip THEN @ ELSE @ \o Repeat(rowResult.Icon, count)]

AppendResult(row, rowResult, count) ==
  LET latest == rowResult.Result
      n == Len(row.Results)
      skip == rowResult.Result = Row_Result.NO_RESULT
  IN [row EXCEPT
        !.Results = IF n = 0 \/ row.Results[n - 1] # latest
                    THEN row.Results \o <<latest, count>>
                    ELSE [row.Results EXCEPT ![n] = @ + count],
        !.CellIds = @ \o Repeat(EmptyStr, count),
        !.Messages = IF skip THEN @ ELSE @ \o Repeat(rowResult.Message, count),
        !.Icons = IF skip THEN @ ELSE @ \o Repeat(rowResult.Icon, count)]

\* ------------------------------------------------------------ name format
\* type NameConfig: format is the format string, parts the metadata keys
DefaultNameConfig == [format |-> <<"%", "s">>, parts |-> <<"Tests name">>]

\* fmt.Sprintf(format, args...) for formats whose only verb is %s and that
\* have one verb per argument
RECURSIVE Sprintf(_, _)
Sprintf(format, args) ==
  IF format = <<>> THEN <<>>
  ELSE IF Head(format) = "%" /\ Len(format) >= 2 /\ format[2] = "s" /\ args # <<>>
  THEN Head(args) \o Sprintf(SubSeq(format, 3, Len(format)), Tail(args))
  ELSE <<Head(format)>> \o Sprintf(Tail(format), args)

\* func (r Row) Format(config NameConfig, meta map[string]string) string
Format(r, config, meta) ==
  LET parsed == [i \in 1..Len(config.parts) |->
                   LET p == config.parts[i]
                   IN IF p \in DOMAIN r.Metadata THEN r.Metadata[p]
                      ELSE IF p \in DOMAIN meta THEN meta[p]
                      ELSE EmptyStr]
  IN Sprintf(config.format, parsed)

\* fmt.Sprintf("%s [%d]", prefix, idx)
Suffixed(prefix, idx) == prefix \o <<" ", "[">> \o Itoa(idx) \o <<"]">>

\* the disambiguation loop numbering the suffixes from 0
RECURSIVE UniqueNameFromZero(_, _, _, _)
UniqueNameFromZero(prefix, name, idx, found) ==
  IF name \in found
  THEN UniqueNameFromZero(prefix, Suffixed(prefix, idx - 1), idx + 1, found)
  ELSE name

\* the loop "for idx := 1; found[name]; idx++": first free name from idx on
RECURSIVE UniqueName(_, _, _, _)
UniqueName(prefix, name, idx, found) ==
  IF name \in found
  THEN UniqueName(prefix, Suffixed(prefix, idx), idx + 1, found)
  ELSE name

\* ------------------------------------------------------------ AppendColumn
\* a header loop without the "build.Finished == 0" branch
HeaderValueAlwaysLookup(h, build) ==
  IF h \in DOMAIN build.Metadata THEN build.Metadata[h] ELSE MissingStr

\* the header loop of AppendColumn: the Extra entry for header h
HeaderValue(h, build) ==
  IF build.Finished = 0 THEN EmptyStr
  ELSE
    LET commit == h = "Commit"
        key == IF commit THEN "repo-commit" ELSE h
        trunc == IF commit THEN 9 ELSE 0
        ah == IF commit THEN "job-version" ELSE ""
        \* strings.SplitN(av, "+", 2): the last of at most two parts
        afterPlus(av) ==
          IF \E i \in 1..Len(av) : av[i] = "+"
          THEN SubSeq(av, SkipWhile(av, 1, Range(av) \ {"+"}) + 1, Len(av))
          ELSE av
        v == IF key \in DOMAIN build.Metadata THEN build.Metadata[key]
             ELSE IF ah = "" THEN MissingStr
             ELSE IF ah \in DOMAIN build.Metadata
                  THEN afterPlus(build.Metadata[ah])
             ELSE EmptyStr
    IN IF trunc > 0 /\ trunc < Len(v) THEN SubSeq(v, 1, trunc) ELSE v

\* the loop "for k, v := range br.Metrics" on row r, visiting keys in korder
RECURSIVE AppendMetrics(_, _, _)
AppendMetrics(r, metrics, korder) ==
  IF korder = <<>> THEN r
  ELSE
    LET k == Head(korder)
    IN IF k \notin DOMAIN metrics THEN AppendMetrics(r, metrics, Tail(korder))
       ELSE
         LET f == FindMetric(r, k)
             rm == IF f = 0 THEN [r EXCEPT !.Metrics = Append(@, NewMetric(k))]
                   ELSE r
             mi == IF f = 0 THEN Len(rm.Metrics) ELSE f
             ra == [rm EXCEPT !.Metrics[mi] =
                      AppendMetric(@, Len(rm.Messages), metrics[k])]
         IN AppendMetrics(ra, metrics, Tail(korder))

\* the "New row" branch without the back-padding
NewRowNoPad(name, target, n) == NewStateRow(name, target)

\* the "New row" branch padding one cell too many
NewRowPadN(name, target, n) ==
  IF n > 1 THEN AppendResult(NewStateRow(name, target), noResult, n)
  ELSE NewStateRow(name, target)

\* the "New row" branch padding without the test "n > 1"
NewRowAlwaysPad(name, target, n) ==
  AppendResult(NewStateRow(name, target), noResult, n - 1)

\* the "New row" branch: &state.Row{Name, Id}, back-padded for the n - 1
\* earlier columns when the grid has n > 1 columns
NewRow(name, target, n) ==
  IF n > 1 THEN AppendResult(NewStateRow(name, target), noResult, n - 1)
  ELSE NewStateRow(name, target)

\* the inner loop iteration forgetting "rows[name] = r" for a new row
AppendRecordNoIndex(st, n, target, br, format, meta, korder) ==
  LET prefix == Format(br, format, meta)
      name == UniqueName(prefix, prefix, 1, st.found)
      ok == name \in DOMAIN st.rows
      addr == IF ok THEN st.rows[name] ELSE Len(st.heap) + 1
      r0 == IF ok THEN st.heap[addr] ELSE NewRow(name, target, n)
      r2 == AppendMetrics(AppendResult(r0, br, 1), br.Metrics, korder)
  IN [gridRows |-> IF ok THEN st.gridRows ELSE Append(st.gridRows, addr),
      heap |-> IF ok THEN [st.heap EXCEPT ![addr] = r2] ELSE Append(st.heap, r2),
      rows |-> st.rows,
      found |-> st.found \cup {name},
      missing |-> st.missing \ {name},
      assigned |-> Append(st.assigned,
                          [prefix |-> prefix, name |-> name, target |-> target,
                           Result |-> br.Result, Metrics |-> br.Metrics])]

\* one iteration of the inner loop "for _, br := range results"; n is
\* len(grid.Columns) and st carries grid.Rows, the rows of the heap, the
\* rows, found and missing maps and the names assigned so far
AppendRecord(st, n, target, br, format, meta, korder) ==
  LET prefix == Format(br, format, meta)
      name == UniqueName(prefix, prefix, 1, st.found)
      ok == name \in DOMAIN st.rows
      addr == IF ok THEN st.rows[name] ELSE Len(st.heap) + 1
      r0 == IF ok THEN st.heap[addr] ELSE NewRow(name, target, n)
      r1 == AppendResult(r0, br, 1)
      r2 == AppendMetrics(r1, br.Metrics, korder)
  IN [gridRows |-> IF ok THEN st.gridRows ELSE Append(st.gridRows, addr),
      heap |-> IF ok THEN [st.heap EXCEPT ![addr] = r2] ELSE Append(st.heap, r2),
      rows |-> IF ok THEN st.rows ELSE (name :> addr) @@ st.rows,
      found |-> st.found \cup {name},
      missing |-> st.missing \ {name},
      assigned |-> Append(st.assigned,
                          [prefix |-> prefix, name |-> name, target |-> target,
                           Result |-> br.Result, Metrics |-> br.Metrics])]

\* the loops "for target, results := range build.Rows { for _, br := ..."
\* over the records recs = <<[target, br], ...>> in processing order
RECURSIVE AppendRecords(_, _, _, _, _, _)
AppendRecords(st, n, recs, format, meta, korder) ==
  IF recs = <<>> THEN st
  ELSE AppendRecords(
         AppendRecord(st, n, Head(recs).target, Head(recs).br, format, meta, korder),
         n, Tail(recs), format, meta, korder)

\* the records of build.Rows in the order the range loop over targets
\* torder visits them
RECURSIVE Flatten(_, _)
Flatten(buildRows, torder) ==
  IF torder = <<>> THEN <<>>
  ELSE [i \in 1..Len(buildRows[Head(torder)]) |->
          [target |-> Head(torder), br |-> buildRows[Head(torder)][i]]]
       \o Flatten(buildRows, Tail(torder))

\* AppendColumn(headers, format, grid, rows, build): the new grid, heap of
\* state.Row objects and rows map, and the names it assigned; torder and
\* korder are the orders of the two range loops over maps
AppendColumn(headers, format, g, hp, rws, build, torder, korder) ==
  LET c == [Build |-> build.Id, Started |-> build.Started * 1000,
            Extra |-> [i \in 1..Len(headers) |-> HeaderValue(headers[i], build)]]
      columns == Append(g.Columns, c)
      st0 == [gridRows |-> g.Rows, heap |-> hp, rows |-> rws, found |-> {},
              missing |-> DOMAIN rws, assigned |-> <<>>]
      st == AppendRecords(st0, Len(columns), Flatten(build.Rows, torder),
                          format, build.Metadata, korder)
      missed == {rws[name] : name \in st.missing}
  IN [grid |-> [Columns |-> columns, Rows |-> st.gridRows],
      heap |-> [a \in 1..Len(st.heap) |->
                  IF a \in missed THEN AppendResult(st.heap[a], noResult, 1)
                  ELSE st.heap[a]],
      rows |-> st.rows,
      assigned |-> st.assigned]

\* --------------------------------------------------------------- variables
VARIABLES
  now,          \* time.Now().Unix(), constant during one run
  store,        \* object store: build prefix -> what ReadBuild finds there
  builds,       \* ReadBuilds argument builds (0-based), as listBuilds returns it
  max,          \* ReadBuilds argument max
  dur,          \* ReadBuilds argument dur, in seconds
  concurrency,  \* ReadBuilds argument concurrency
  nc,           \* MakeNameConfig(group.TestNameConfig)
  cols,         \* the slot array cols (0-based) of *Column
  parentDone,   \* the context parent is cancelled
  cancelled,    \* ReadBuilds has called cancel() on the group context ctx
  dpc,          \* dispatcher goroutine: "idle", "run", "parked" (in its select), "done"
  di,           \* dispatcher loop variable i
  wpc,          \* worker goroutines: "idle", "select", "read", "signal", "senderr", "done"
  wi,           \* index each worker received
  reads,        \* history: the indices whose ReadBuild returned, in that order
  qpc,          \* the goroutine that waits on wg: "idle", "wait", "select", "done"
  mpc,          \* ReadBuilds itself: "harness", "start", "select", "feed", "sort", "done"
  fi,           \* position of the feed loop in cols
  result,       \* what ReadBuilds returned: "none", "grid", "error"
  grid,         \* state.Grid: Columns and Rows (pointers into heap)
  heap,         \* the state.Row objects
  rows,         \* map name -> pointer of AppendColumn's callers
  fed,          \* history: for each AppendColumn call, the names it assigned
  build,        \* ReadBuild: the build it reads (prefix and stored objects)
  bctx,         \* ReadBuild: its ctx (deadline expired, cancel() called)
  bpc,          \* ReadBuild: where ReadBuild and each of its goroutines stand
  bloc,         \* ReadBuild: started, finished, rows and the goroutines' locals
  bret,         \* ReadBuild: what it returned
  call          \* the last call of a pure function: its name, argument and result

vars ==
  <<now, store, builds, max, dur, concurrency, nc, cols, parentDone, cancelled, dpc, di,
    wpc,
    wi, reads, qpc, mpc, fi, result, grid, heap, rows, fed,
    build, bctx, bpc, bloc, bret, call>>

buildVars == <<build, bctx, bpc, bloc, bret>>

gridVars == <<grid, heap, rows, fed>>
driverVars ==
  <<now, store, builds, max, dur, concurrency, cols, parentDone, cancelled, dpc,
    di, wpc, wi, reads, qpc, mpc, fi, result>>

\* a *Column slot is Nil or <<c>>, a pointer to the Column c
Nil == <<>>

\* group configuration: Headers(group)
GroupHeaders == <<"Commit", "node">>

\* ----------------------------------------------------------------- junit
\* A JunitResult is a record of Name, Time (seconds) and the pointers
\* Failure, Skipped and Output (Nil, or <<s>> for the element's text s); a
\* JunitSuite is a record of Name and Results.

\* "const max = 140" of JunitResult.Message
MessageMax == 140

\* the text JunitResult.Message picks: the first of failure, skipped and
\* system-out that is present and not empty
MessageText(jr) ==
  IF jr.Failure # Nil /\ jr.Failure[1] # EmptyStr THEN jr.Failure[1]
  ELSE IF jr.Skipped # Nil /\ jr.Skipped[1] # EmptyStr THEN jr.Skipped[1]
  ELSE IF jr.Output # Nil /\ jr.Output[1] # EmptyStr THEN jr.Output[1]
  ELSE EmptyStr

\* msg[:h] + "..." + msg[l-h-1:]
Truncate(msg, h) ==
  SubSeq(msg, 1, h) \o <<".", ".", ".">> \o SubSeq(msg, Len(msg) - h, Len(msg))

\* JunitResult.Message
Message(jr) ==
  LET msg == MessageText(jr)
      l == Len(msg)
  IN IF MessageMax = 0 \/ l <= MessageMax THEN msg
     ELSE Truncate(msg, MessageMax \div 2)

\* the name JunitResult.Row gives the row: the suite name, when there is
\* one, then ".", then the test name
RowName(jr, suite) ==
  IF suite # EmptyStr THEN suite \o <<".">> \o jr.Name ELSE jr.Name

\* JunitResult.Row setting the icon of every failed or skipped test case,
\* whether it has a message or not
RowIconAlways(jr, suite) ==
  LET msg == Message(jr)
  IN [Metrics |-> IF jr.Time > 0 THEN (elapsedKey :> jr.Time) ELSE <<>>,
      Metadata |-> ("Tests name" :> RowName(jr, suite)),
      Message |-> msg,
      Result |-> IF jr.Failure # Nil THEN Row_Result.FAIL
                 ELSE IF jr.Skipped # Nil THEN Row_Result.PASS_WITH_SKIPS
                 ELSE Row_Result.PASS,
      Icon |-> IF jr.Failure # Nil THEN <<"F">>
               ELSE IF jr.Skipped # Nil THEN <<"S">>
               ELSE EmptyStr]

\* JunitResult.Row: the second value it returns
Row(jr, suite) ==
  LET msg == Message(jr)
  IN [Metrics |-> IF jr.Time > 0 THEN (elapsedKey :> jr.Time) ELSE <<>>,
      Metadata |-> ("Tests name" :> RowName(jr, suite)),
      Message |-> msg,
      Result |-> IF jr.Failure # Nil THEN Row_Result.FAIL
                 ELSE IF jr.Skipped # Nil THEN Row_Result.PASS_WITH_SKIPS
                 ELSE Row_Result.PASS,
      Icon |-> IF jr.Failure # Nil THEN (IF msg # EmptyStr THEN <<"F">> ELSE EmptyStr)
               ELSE IF jr.Skipped # Nil
                    THEN (IF msg # EmptyStr THEN <<"S">> ELSE EmptyStr)
               ELSE EmptyStr]

\* the rows map of extractRows after the test cases results[1..n] of the
\* suite called suite have been added to rws
RECURSIVE SuiteRows(_, _, _, _, _)
SuiteRows(rws, suite, results, n, meta) ==
  IF n = 0 THEN rws
  ELSE LET before == SuiteRows(rws, suite, results, n - 1, meta)
           sr == results[n]
       IN IF sr.Skipped # Nil /\ Len(sr.Skipped[1]) = 0 THEN before
          ELSE LET nm == RowName(sr, suite)
                   r == [Row(sr, suite) EXCEPT !.Metadata = meta @@ @]
               IN [t \in DOMAIN before \cup {nm} |->
                     IF t = nm
                     THEN (IF nm \in DOMAIN before THEN before[nm] ELSE <<>>)
                          \o <<r>>
                     ELSE before[t]]

\* extractRows(buf, meta) for a buffer that parses to suites[1..n]
RECURSIVE extractRowsUpTo(_, _, _)
extractRowsUpTo(suites, n, meta) ==
  IF n = 0 THEN <<>>
  ELSE SuiteRows(extractRowsUpTo(suites, n - 1, meta), suites[n].Name,
                 suites[n].Results, Len(suites[n].Results), meta)

\* extractRows(buf, meta): the rows of the parsed file, meta merged into each
extractRows(suites, meta) == extractRowsUpTo(suites, Len(suites), meta)

\* ------------------------------------------------------------- ReadBuild
\* seconds in 24*time.Hour
Day == 24 * 3600

\* the messages Overall and ReadBuild attach to the Overall row
TimedOutMessage ==
  <<"T", "e", "s", "t", "i", "n", "g", " ", "d", "i", "d", " ", "n", "o",
    "t", " ", "c", "o", "m", "p", "l", "e", "t", "e", " ", "w", "i", "t",
    "h", "i", "n", " ", "2", "4", " ", "h", "o", "u", "r", "s">>
StillRunningMessage ==
  <<"S", "t", "i", "l", "l", " ", "r", "u", "n", "n", "i", "n", "g", ";",
    " ", "h", "a", "s", " ", "n", "o", "t", " ", "f", "i", "n", "i", "s",
    "h", "e", "d", ".", ".", ".">>
FailedOutsideMessage ==
  <<"B", "u", "i", "l", "d", " ", "f", "a", "i", "l", "e", "d", " ", "o",
    "u", "t", "s", "i", "d", "e", " ", "o", "f", " ", "t", "e", "s", "t",
    " ", "r", "e", "s", "u", "l", "t", "s">>

\* an Overall that never reports a timeout
OverallNoTimeout(br, clock) ==
  LET meta == ("Tests name" :> OverallStr)
  IN IF br.Finished > 0
     THEN [Result |-> IF br.Passed THEN Row_Result.PASS ELSE Row_Result.FAIL,
           Metrics |-> (elapsedKey :> (br.Finished - br.Started)),
           Metadata |-> meta, Message |-> EmptyStr, Icon |-> EmptyStr]
     ELSE [Result |-> Row_Result.RUNNING, Metrics |-> <<>>, Metadata |-> meta,
           Message |-> StillRunningMessage, Icon |-> <<"R">>]

\* func (br Column) Overall() Row
Overall(br, clock) ==
  LET meta == ("Tests name" :> OverallStr)
  IN IF br.Finished > 0
     THEN [Result |-> IF br.Passed THEN Row_Result.PASS ELSE Row_Result.FAIL,
           Metrics |-> (elapsedKey :> (br.Finished - br.Started)),
           Metadata |-> meta, Message |-> EmptyStr, Icon |-> EmptyStr]
     ELSE IF clock - Day > br.Started
     THEN [Result |-> Row_Result.FAIL, Metrics |-> <<>>, Metadata |-> meta,
           Message |-> TimedOutMessage, Icon |-> <<"T">>]
     ELSE [Result |-> Row_Result.RUNNING, Metrics |-> <<>>, Metadata |-> meta,
           Message |-> StillRunningMessage, Icon |-> <<"R">>]

\* path.Base(prefix) of a prefix "dir/.../id/"
RECURSIVE Base(_)
Base(p) ==
  IF p # <<>> /\ p[Len(p)] = "/" THEN Base(SubSeq(p, 1, Len(p) - 1))
  ELSE IF \E i \in 1..Len(p) : p[i] = "/"
  THEN LET last == CHOOSE i \in 1..Len(p) :
                     p[i] = "/" /\ \A j \in (i + 1)..Len(p) : p[j] # "/"
       IN SubSeq(p, last + 1, Len(p))
  ELSE p

\* a ReadBuild that never amends the Overall row of a failed build
ReadBuildColumnUnamended(prefix, s, f, junit, clock) ==
  LET br0 == [Id |-> Base(prefix), Started |-> s.Timestamp, Finished |-> 0,
              Passed |-> FALSE, Metadata |-> <<>>]
      br == [br0 EXCEPT !.Finished = f.Timestamp, !.Metadata = f.Metadata,
                        !.Passed = f.Passed]
  IN IF f.running
     THEN br0 @@ [Rows |-> (OverallStr :> <<Overall(br0, clock)>>)]
     ELSE br @@ [Rows |-> [t \in DOMAIN junit \cup {OverallStr} |->
                            (IF t = OverallStr THEN <<Overall(br, clock)>> ELSE <<>>) \o
                            (IF t \in DOMAIN junit THEN junit[t] ELSE <<>>)]]

\* a ReadBuild that waits for the rows of a running build as well
ReadBuildColumnNoEarlyReturn(prefix, s, f, junit, clock) ==
  LET br == [Id |-> Base(prefix), Started |-> s.Timestamp,
             Finished |-> f.Timestamp, Passed |-> f.Passed,
             Metadata |-> f.Metadata]
  IN br @@ [Rows |-> [t \in DOMAIN junit \cup {OverallStr} |->
                        (IF t = OverallStr THEN <<Overall(br, clock)>> ELSE <<>>) \o
                        (IF t \in DOMAIN junit THEN junit[t] ELSE <<>>)]]

\* the Column ReadBuild returns (lines 1222-1278) for the build at prefix
\* once it has received started s and finished f (f.running: there is no
\* finished.json) and has aggregated the rows junit (target -> rows)
ReadBuildColumn(prefix, s, f, junit, clock) ==
  LET br0 == [Id |-> Base(prefix), Started |-> s.Timestamp, Finished |-> 0,
              Passed |-> FALSE, Metadata |-> <<>>]
      br == [br0 EXCEPT !.Finished = f.Timestamp, !.Metadata = f.Metadata,
                        !.Passed = f.Passed]
      or == Overall(br, clock)
      ft == \E t \in DOMAIN junit \ {OverallStr} :
              \E i \in 1..Len(junit[t]) : junit[t][i].Result = Row_Result.FAIL
      orr == IF or.Result = Row_Result.FAIL /\ ~ft
             THEN [or EXCEPT !.Icon = <<"F">>, !.Message = FailedOutsideMessage]
             ELSE or
  IN IF f.running
     THEN br0 @@ [Rows |-> (OverallStr :> <<Overall(br0, clock)>>)]
     ELSE br @@ [Rows |-> [t \in DOMAIN junit \cup {OverallStr} |->
                            (IF t = OverallStr THEN <<orr>> ELSE <<>>) \o
                            (IF t \in DOMAIN junit THEN junit[t] ELSE <<>>)]]

\* ------------------------------------------------- grid assembler harness
\* SpecGrid feeds AppendColumn, as the feed loop of ReadBuilds does, with
\* up to MaxCols columns holding up to MaxRecs junit records each.

Clocks == {200000}

NameA == <<"a">>
NameA1 == <<"a", " ", "[", "1", "]">>

\* a Row as JunitResult.Row and extractRows build it for the test called n
JunitRow(n, res, metrics, message, icon) ==
  [Result |-> res, Metrics |-> metrics, Metadata |-> ("Tests name" :> n),
   Message |-> message, Icon |-> icon]

RecordsA ==
  {JunitRow(NameA, Row_Result.PASS, (elapsedKey :> 2), EmptyStr, EmptyStr),
   JunitRow(NameA, Row_Result.FAIL, <<>>, <<"x">>, <<"F">>)}

RecordsA1 ==
  {JunitRow(NameA1, Row_Result.PASS, (elapsedKey :> 3), EmptyStr, EmptyStr)}

\* the Column.Rows map target -> rows holding the rows la of test "a" and
\* the rows lb of test "a [1]"
RowMapOf(la, lb) ==
  [t \in (IF la = <<>> THEN {} ELSE {NameA}) \cup
         (IF lb = <<>> THEN {} ELSE {NameA1}) |->
     IF t = NameA THEN la ELSE lb]

\* the rows one test contributes to a column: nothing, or the same row
\* from each of 1..MaxRecs runs of the test
Runs(records) ==
  {<<>>} \cup {Repeat(r, k) : r \in records, k \in 1..MaxRecs}

\* a column's rows: up to MaxRecs runs in all, at most one of them a run
\* of the test whose name already carries a " [1]" suffix
GridRowMaps ==
  {RowMapOf(p[1], p[2]) :
     p \in {q \in Runs(RecordsA) \X Runs(RecordsA1) :
              Len(q[2]) <= 1 /\ Len(q[1]) + Len(q[2]) <= MaxRecs}}

\* the n-th column fed (n = 0, 1, ...): a finished build, newest first
GridColumn(n, rowMap, clock) ==
  [Id |-> Itoa(20 - n), Started |-> clock - 600 * (n + 1),
   Finished |-> clock - 600 * (n + 1) + 60, Passed |-> TRUE,
   Metadata |-> ("repo-commit" :> <<"0", "1", "2", "3", "4", "5", "6", "7", "8", "9", "a", "b">>),
   Rows |-> rowMap]

NameConfigs == {DefaultNameConfig}

\* no ReadBuild call is in progress and no function has been called
BuildIdle ==
  /\ call = <<>>
  /\ build = <<>>
  /\ bctx = <<>>
  /\ bpc = <<>>
  /\ bloc = <<>>
  /\ bret = <<>>

InitGrid ==
  /\ BuildIdle
  /\ now \in Clocks
  /\ store = <<>>
  /\ builds = <<>>
  /\ max = 0
  /\ dur = 0
  /\ concurrency = 0
  /\ nc \in NameConfigs
  /\ cols = <<>>
  /\ parentDone = FALSE
  /\ cancelled = FALSE
  /\ dpc = "idle"
  /\ di = 0
  /\ wpc = <<>>
  /\ wi = <<>>
  /\ reads = <<>>
  /\ qpc = "idle"
  /\ mpc = "harness"
  /\ fi = 0
  /\ result = "none"
  /\ grid = [Columns |-> <<>>, Rows |-> <<>>]
  /\ heap = <<>>
  /\ rows = <<>>
  /\ fed = <<>>

\* one call AppendColumn(h, nc, grid, rows, column) of the harness
GridAppend ==
  /\ mpc = "harness"
  /\ Len(grid.Columns) < MaxCols
  /\ \E rowMap \in GridRowMaps :
       \E torder \in KeyOrders(DOMAIN rowMap) :
         \E korder \in KeyOrders({elapsedKey}) :
           LET res == AppendColumn(GroupHeaders, nc, grid, heap, rows,
                                   GridColumn(Len(grid.Columns), rowMap, now),
                                   torder, korder)
           IN /\ grid' = res.grid
              /\ heap' = res.heap
              /\ rows' = res.rows
              /\ fed' = Append(fed, res.assigned)
  /\ UNCHANGED <<driverVars, nc>>
  /\ UNCHANGED <<buildVars, call>>

NextGrid == GridAppend

SpecGrid == InitGrid /\ [][NextGrid]_vars

\* ---------------------------------------------------- reading the grid
\* the rows of the grid
GridRows == [i \in 1..Len(grid.Rows) |-> heap[grid.Rows[i]]]

\* the cells a run-length-encoded results list stands for
RECURSIVE Cells(_)
Cells(results) ==
  IF Len(results) < 2 THEN <<>>
  ELSE Repeat(results[1], results[2]) \o Cells(SubSeq(results, 3, Len(results)))

\* sum(l[1::2]): the sum of the counts (lengths) of an RLE list
RECURSIVE SumCounts(_)
SumCounts(l) ==
  IF Len(l) < 2 THEN 0 ELSE l[2] + SumCounts(SubSeq(l, 3, Len(l)))

\* number of RLE groups of a list
Groups(l) == Len(l) \div 2

NonNoResult(row) ==
  Cardinality({j \in 1..Len(Cells(row.Results)) :
                 Cells(row.Results)[j] # Row_Result.NO_RESULT})

\* the entries of the j-th fed column that were given the row name nm
FedUnder(j, nm) == {p \in 1..Len(fed[j]) : fed[j][p].name = nm}

\* C1: every row of the grid has exactly one cell per grid column: the
\* counts of its run-length-encoded results sum to the number of columns.
C1_RowCellsEqualColumns ==
  \A i \in 1..Len(GridRows) :
    SumCounts(GridRows[i].Results) = Len(grid.Columns)

\* a row first seen in the third column, back-padded with two NO_RESULT cells
C1_Witness ==
  /\ Len(grid.Columns) = 3
  /\ \E i \in 1..Len(GridRows) :
       /\ GridRows[i].Results[1] = Row_Result.NO_RESULT
       /\ GridRows[i].Results[2] = 2
       /\ Len(GridRows[i].Results) = 4

\* C2 as stated: in every row the number of cells that are not NO_RESULT
\* equals len(messages), len(icons) and len(cellIds).
C2_Original ==
  \A i \in 1..Len(GridRows) :
    /\ NonNoResult(GridRows[i]) = Len(GridRows[i].Messages)
    /\ NonNoResult(GridRows[i]) = Len(GridRows[i].Icons)
    /\ NonNoResult(GridRows[i]) = Len(GridRows[i].CellIds)

\* C2 amended: in every row the number of cells that are not NO_RESULT
\* equals len(messages) and len(icons), while len(cellIds) equals the
\* number of all cells of the row (one per column, NO_RESULT included).
C2_MessagesSkipNoResult ==
  \A i \in 1..Len(GridRows) :
    /\ NonNoResult(GridRows[i]) = Len(GridRows[i].Messages)
    /\ NonNoResult(GridRows[i]) = Len(GridRows[i].Icons)
    /\ Len(GridRows[i].CellIds) = SumCounts(GridRows[i].Results)

\* a row holding NO_RESULT cells (padded and missed) next to a real cell
C2_Witness ==
  \E i \in 1..Len(GridRows) :
    /\ Len(GridRows[i].CellIds) = 3
    /\ Len(GridRows[i].Messages) = 1
    /\ Cells(GridRows[i].Results)[2] # Row_Result.NO_RESULT

\* C3: the j-th cell of every row is the result of the record that the
\* j-th column holds under the row's name, and is NO_RESULT exactly when
\* the column holds no record under that name.
C3_CellIsRecordResult ==
  \A i \in 1..Len(GridRows) :
    \A j \in 1..Len(grid.Columns) :
      LET cells == Cells(GridRows[i].Results)
          under == FedUnder(j, GridRows[i].Name)
      IN /\ j <= Len(cells)
         /\ \A p \in under : cells[j] = fed[j][p].Result
         /\ (cells[j] = Row_Result.NO_RESULT) <=> (under = {})

\* a row absent from the first column, present in the second and absent
\* from the third
C3_Witness ==
  /\ Len(grid.Columns) = 3
  /\ \E i \in 1..Len(GridRows) :
       /\ FedUnder(1, GridRows[i].Name) = {}
       /\ FedUnder(2, GridRows[i].Name) # {}
       /\ FedUnder(3, GridRows[i].Name) = {}
       /\ Cells(GridRows[i].Results) =
            <<Row_Result.NO_RESULT, Row_Result.FAIL, Row_Result.NO_RESULT>>

\* C4: no two adjacent groups of a row's results carry the same result,
\* and no group of a metric's indices starts where the preceding group ends.
C4_GroupsAreMerged ==
  \A i \in 1..Len(GridRows) :
    /\ \A k \in 1..(Groups(GridRows[i].Results) - 1) :
         GridRows[i].Results[2 * k - 1] # GridRows[i].Results[2 * k + 1]
    /\ \A m \in 1..Len(GridRows[i].Metrics) :
         LET ind == GridRows[i].Metrics[m].Indices
         IN \A k \in 1..(Groups(ind) - 1) :
              ind[2 * k - 1] + ind[2 * k] # ind[2 * k + 1]

\* a row whose results hold a merged group followed by another group and
\* whose metric holds a merged span
C4_Witness ==
  \E i \in 1..Len(GridRows) :
    /\ Groups(GridRows[i].Results) = 2
    /\ GridRows[i].Results[2] = 2
    /\ Len(GridRows[i].Metrics) = 1
    /\ GridRows[i].Metrics[1].Indices[2] = 2

\* C5: for every metric, len(values) is the sum of the span lengths of its
\* indices, and the spans are pairwise disjoint, in increasing order of start.
C5_MetricSpans ==
  \A i \in 1..Len(GridRows) :
    \A m \in 1..Len(GridRows[i].Metrics) :
      LET ind == GridRows[i].Metrics[m].Indices
      IN /\ Len(GridRows[i].Metrics[m].Values) = SumCounts(ind)
         /\ \A k, l \in 1..Groups(ind) :
              k < l => /\ ind[2 * k - 1] < ind[2 * l - 1]
                       /\ ind[2 * k - 1] + ind[2 * k] <= ind[2 * l - 1]

\* a metric with two separate spans
C5_Witness ==
  \E i \in 1..Len(GridRows) :
    \E m \in 1..Len(GridRows[i].Metrics) :
      /\ Groups(GridRows[i].Metrics[m].Indices) = 2
      /\ Len(GridRows[i].Metrics[m].Values) = 2

\* C37: after any sequence of AppendColumn calls, every count in every
\* row's run-length-encoded results is >= 1 and every span length in every
\* metric's indices is >= 1: no empty group is ever stored, including for
\* rows first seen in the first column.
C37_NoEmptyGroup ==
  \A i \in 1..Len(GridRows) :
    /\ Len(GridRows[i].Results) % 2 = 0
    /\ \A k \in 1..Groups(GridRows[i].Results) : GridRows[i].Results[2 * k] >= 1
    /\ \A m \in 1..Len(GridRows[i].Metrics) :
         LET ind == GridRows[i].Metrics[m].Indices
         IN /\ Len(ind) % 2 = 0
            /\ \A k \in 1..Groups(ind) : ind[2 * k] >= 1

\* after two columns: a row first seen in the first column, with a metric,
\* and a row first seen in the second
C37_Witness ==
  /\ Len(grid.Columns) >= 2
  /\ \E i \in 1..Len(GridRows) :
       /\ FedUnder(1, GridRows[i].Name) # {}
       /\ Len(GridRows[i].Metrics) >= 1
  /\ \E i \in 1..Len(GridRows) :
       /\ FedUnder(1, GridRows[i].Name) = {}
       /\ GridRows[i].Results[2] = 1

\* the positions covered by the (start, length) spans of indices, in order
RECURSIVE SpanPositions(_)
SpanPositions(ind) ==
  IF Len(ind) < 2 THEN <<>>
  ELSE [k \in 1..ind[2] |-> ind[1] + k - 1] \o
       SpanPositions(SubSeq(ind, 3, Len(ind)))

\* C6: every position covered by a metric's spans is the (0-based) position
\* of an occupied cell of the row: smaller than the number of columns, not
\* NO_RESULT, and the cell of the record whose metric value was recorded.
C6_IndicesAreOccupiedCells ==
  \A i \in 1..Len(GridRows) :
    \A m \in 1..Len(GridRows[i].Metrics) :
      LET metric == GridRows[i].Metrics[m]
          pos == SpanPositions(metric.Indices)
          cells == Cells(GridRows[i].Results)
      IN \A q \in 1..Len(pos) :
           /\ pos[q] < Len(grid.Columns)
           /\ cells[pos[q] + 1] # Row_Result.NO_RESULT
           /\ \E e \in FedUnder(pos[q] + 1, GridRows[i].Name) :
                /\ metric.Name \in DOMAIN fed[pos[q] + 1][e].Metrics
                /\ q <= Len(metric.Values)
                /\ fed[pos[q] + 1][e].Metrics[metric.Name] = metric.Values[q]

\* the names of the rows of the grid
RowNames == [i \in 1..Len(GridRows) |-> GridRows[i].Name]

\* C7: no two rows of the grid have the same name, and the name-to-row
\* index holds exactly the rows of the grid, each under its own name.
C7_NamesUniqueAndIndexed ==
  /\ \A i, j \in 1..Len(GridRows) : i # j => RowNames[i] # RowNames[j]
  /\ \A i, j \in 1..Len(grid.Rows) : i # j => grid.Rows[i] # grid.Rows[j]
  /\ DOMAIN rows = Range(RowNames)
  /\ \A nm \in DOMAIN rows :
       /\ rows[nm] \in Range(grid.Rows)
       /\ heap[rows[nm]].Name = nm

\* a grid with rows a, a [1] and a [2], the last one new in a later column
C7_Witness ==
  /\ Len(grid.Columns) >= 2
  /\ Len(GridRows) = 3
  /\ Suffixed(NameA, 2) \in DOMAIN rows
  /\ heap[rows[Suffixed(NameA, 2)]].Results[1] = Row_Result.NO_RESULT

\* foo for i = 0 and "foo [i]" for i >= 1
Candidate(prefix, i) == IF i = 0 THEN prefix ELSE Suffixed(prefix, i)

\* how many records before the p-th of the j-th fed column share its prefix
Rank(j, p) ==
  Cardinality({q \in 1..(p - 1) : fed[j][q].prefix = fed[j][p].prefix})

\* the p-th record of the j-th fed column has exactly one cell in that
\* column: no other record of the column has its name, and its row holds
\* its result there
OneCell(j, p) ==
  /\ \A q \in 1..Len(fed[j]) : q # p => fed[j][q].name # fed[j][p].name
  /\ fed[j][p].name \in DOMAIN rows
  /\ Cells(heap[rows[fed[j][p].name]].Results)[j] = fed[j][p].Result

\* C8 as stated: the k records of a column formatted as foo are named foo,
\* foo [1], ..., foo [k-1] in processing order, one cell each.
C8_Original ==
  \A j \in 1..Len(fed) :
    \A p \in 1..Len(fed[j]) :
      /\ fed[j][p].name = Candidate(fed[j][p].prefix, Rank(j, p))
      /\ OneCell(j, p)

\* C8 amended: each record is given the first of foo, foo [1], foo [2], ...
\* that no earlier record of the column was given, one cell each; these
\* names are foo, foo [1], ..., foo [k-1] in processing order whenever no
\* record of the column with another formatted name is given one of them.
C8_FirstFreeName ==
  \A j \in 1..Len(fed) :
    \A p \in 1..Len(fed[j]) :
      LET foo == fed[j][p].prefix
          taken == {fed[j][q].name : q \in 1..(p - 1)}
          free == {i \in 0..Len(fed[j]) : Candidate(foo, i) \notin taken}
          first == CHOOSE i \in free : \A i2 \in free : i <= i2
          clash == \E q \in 1..Len(fed[j]) :
                     /\ fed[j][q].prefix # foo
                     /\ \E i \in 0..Len(fed[j]) : fed[j][q].name = Candidate(foo, i)
      IN /\ fed[j][p].name = Candidate(foo, first)
         /\ ~clash => fed[j][p].name = Candidate(foo, Rank(j, p))
         /\ OneCell(j, p)

\* one column named its three records a, a [1], a [2]; another one, which
\* met a test called "a [1]" first, named its two records a and a [2]
C8_Witness ==
  /\ \E j \in 1..Len(fed) :
       /\ Len(fed[j]) = 3
       /\ \A p \in 1..3 : fed[j][p].prefix = NameA
       /\ fed[j][3].name = Suffixed(NameA, 2)
  /\ \E j \in 1..Len(fed) :
       /\ Len(fed[j]) = 3
       /\ fed[j][1].prefix = NameA1
       /\ fed[j][2].name = NameA
       /\ fed[j][3].prefix = NameA
       /\ fed[j][3].name = Suffixed(NameA, 2)

\* ------------------------------------------------------------ listBuilds
\* sort.Sort(sort.Reverse(all)): the prefixes of S by descending NaturalLess
RECURSIVE SortReverse(_)
SortReverse(S) ==
  IF S = {} THEN <<>>
  ELSE LET top == CHOOSE x \in S : \A y \in S \ {x} : NaturalLess(y, x)
       IN <<top>> \o SortReverse(S \ {top})

\* a Go slice (0-based) from a sequence
Slice(seq) == [i \in 0..(Len(seq) - 1) |-> seq[i + 1]]

\* listBuilds without the sort.Reverse: oldest first
listBuildsAscending(prefixes) ==
  LET sorted == SortReverse(prefixes)
  IN Slice([i \in 1..Len(sorted) |-> [Prefix |-> sorted[Len(sorted) + 1 - i]]])

\* listBuilds: one Build per listed prefix, newest first
listBuilds(prefixes) ==
  LET sorted == SortReverse(prefixes)
  IN Slice([i \in 1..Len(sorted) |-> [Prefix |-> sorted[i]]])

\* ------------------------------------------------------------ ReadBuilds
\* lb without the truncation to max
lbUntruncated == Cardinality(DOMAIN builds)

\* lb: the number of builds kept
lb == IF Cardinality(DOMAIN builds) > max THEN max ELSE Cardinality(DOMAIN builds)

\* time.Time{}.Unix() is -62135596800 (year 1); it is represented by the
\* smallest 32-bit value, which is likewise below every timestamp of the model
ZeroTimeUnix == 0 - 2147483647

\* a stop computed without the test for a zero window
stopUnixUnguarded == now - dur

\* stop.Unix(): stop is the zero time.Time unless dur # 0
stopUnix == IF dur # 0 THEN now - dur ELSE ZeroTimeUnix

\* "c.Started < stop.Unix()" of the workers: the column is old enough to stop
IsOld(c) == c.Started < stopUnix

\* a feed loop that never breaks
FeedNeverBreaks(c) == FALSE

\* "c.Started < stop.Unix()" of the feed loop: break after this column
FeedBreaks(c) == c.Started < stopUnix

\* <-ctx.Done() is ready
CtxDone == parentDone \/ cancelled

Workers == 1..concurrency

\* the prefixes the store may hold, in listing (lexicographic) order
PrefixPool ==
  <<<<"g", "/", "0", "1", "0", "/">>, <<"g", "/", "1", "0", "/">>,
    <<"g", "/", "8", "/">>, <<"g", "/", "9", "/">>,
    <<"g", "/", "9", "a", "/">>>>

\* the names of two junit tests whose natural order (t9 before t10) is not
\* their byte order
NameT9 == <<"t", "9">>
NameT10 == <<"t", "1", "0">>

\* what ReadBuild finds at a prefix: the error it returns ("none": a
\* Column), the started.json timestamp, the finished.json content and the
\* rows of the junit artifacts
BuildKinds(clock) ==
  {[Err |-> "none", Started |-> [Timestamp |-> clock - 600],
    Finished |-> [running |-> FALSE, Timestamp |-> clock - 300, Passed |-> TRUE,
                  Metadata |-> ("node" :> <<"n", "1">>)],
    Junit |-> (NameT10 :> <<JunitRow(NameT10, Row_Result.PASS,
                                     (elapsedKey :> 2), EmptyStr, EmptyStr)>>)],
   [Err |-> "none", Started |-> [Timestamp |-> clock - 900],
    Finished |-> [running |-> FALSE, Timestamp |-> clock - 300, Passed |-> FALSE,
                  Metadata |-> <<>>],
    Junit |-> (NameT9 :> <<JunitRow(NameT9, Row_Result.FAIL, <<>>,
                                    <<"x">>, <<"F">>)>>)],
   [Err |-> "none", Started |-> [Timestamp |-> clock - 7200],
    Finished |-> [running |-> TRUE, Timestamp |-> 0, Passed |-> FALSE,
                  Metadata |-> <<>>],
    Junit |-> <<>>],
   [Err |-> "notstarted", Started |-> [Timestamp |-> 0],
    Finished |-> [running |-> TRUE, Timestamp |-> 0, Passed |-> FALSE,
                  Metadata |-> <<>>],
    Junit |-> <<>>],
   [Err |-> "failed", Started |-> [Timestamp |-> clock - 600],
    Finished |-> [running |-> TRUE, Timestamp |-> 0, Passed |-> FALSE,
                  Metadata |-> <<>>],
    Junit |-> <<>>]}

Durations == {0, 3600}
MaxChoices == {2, 5}

Init ==
  /\ BuildIdle
  /\ now \in Clocks
  /\ \E n \in 0..MaxBuilds :
       /\ store \in [{PrefixPool[i] : i \in 1..n} -> BuildKinds(now)]
       /\ builds = listBuilds(DOMAIN store)
  /\ max \in MaxChoices
  /\ dur \in Durations
  /\ concurrency \in 0..MaxWorkers
  /\ nc = DefaultNameConfig
  /\ cols = <<>>
  /\ parentDone = FALSE
  /\ cancelled = FALSE
  /\ dpc = "idle"
  /\ di = 0
  /\ wpc = [w \in Workers |-> "idle"]
  /\ wi = [w \in Workers |-> 0]
  /\ reads = <<>>
  /\ qpc = "idle"
  /\ mpc = "start"
  /\ fi = 0
  /\ result = "none"
  /\ grid = [Columns |-> <<>>, Rows |-> <<>>]
  /\ heap = <<>>
  /\ rows = <<>>
  /\ fed = <<>>

\* a ReadBuilds that does not start the goroutine waiting on wg
MainStartNoWaiter ==
  /\ mpc = "start"
  /\ IF concurrency = 0
     THEN /\ mpc' = "done"
          /\ result' = "error"
          /\ UNCHANGED <<cols, dpc, wpc>>
     ELSE /\ mpc' = "select"
          /\ cols' = [i \in 0..(lb - 1) |-> Nil]
          /\ dpc' = "run"
          /\ wpc' = [w \in Workers |-> "select"]
          /\ UNCHANGED result
  /\ UNCHANGED <<now, store, builds, max, dur, concurrency, nc, parentDone,
                 cancelled, di, wi, reads, fi, gridVars, qpc>>
  /\ UNCHANGED <<buildVars, call>>

\* ReadBuilds, lines 1344-1420: refuse zero readers, else allocate cols and
\* start the dispatcher, the workers and the goroutine waiting on wg
MainStart ==
  /\ mpc = "start"
  /\ IF concurrency = 0
     THEN /\ mpc' = "done"
          /\ result' = "error"
          /\ UNCHANGED <<cols, dpc, wpc, qpc>>
     ELSE /\ mpc' = "select"
          /\ cols' = [i \in 0..(lb - 1) |-> Nil]
          /\ dpc' = "run"
          /\ wpc' = [w \in Workers |-> "select"]
          /\ qpc' = "wait"
          /\ UNCHANGED result
  /\ UNCHANGED <<now, store, builds, max, dur, concurrency, nc, parentDone,
                 cancelled, di, wi, reads, fi, gridVars>>
  /\ UNCHANGED <<buildVars, call>>

\* the caller cancels the context ReadBuilds was given
ParentCancel ==
  /\ mpc \in {"select", "feed", "sort"}
  /\ ~parentDone
  /\ parentDone' = TRUE
  /\ UNCHANGED <<now, store, builds, max, dur, concurrency, nc, cols, cancelled,
                 dpc, di, wpc, wi, reads, qpc, mpc, fi, result, gridVars>>
  /\ UNCHANGED <<buildVars, call>>

\* dispatcher: "for i := range builds[:lb]" reaches its select, or ends and
\* runs the deferred close(indices) and wg.Done()
DispatcherLoop ==
  /\ dpc = "run"
  /\ dpc' = IF di < lb THEN "parked" ELSE "done"
  /\ UNCHANGED <<now, store, builds, max, dur, concurrency, nc, cols, parentDone,
                 cancelled, di, wpc, wi, reads, qpc, mpc, fi, result, gridVars>>
  /\ UNCHANGED <<buildVars, call>>

\* dispatcher: case <-ctx.Done(): return
DispatcherCtxDone ==
  /\ dpc = "parked"
  /\ CtxDone
  /\ dpc' = "done"
  /\ UNCHANGED <<now, store, builds, max, dur, concurrency, nc, cols, parentDone,
                 cancelled, di, wpc, wi, reads, qpc, mpc, fi, result, gridVars>>
  /\ UNCHANGED <<buildVars, call>>

\* a dispatcher whose loop does not move on to the next index
WorkerReceiveSameIndex(w) ==
  /\ dpc = "parked"
  /\ wpc[w] = "select"
  /\ ~CtxDone
  /\ Len(reads) < MaxBuilds
  /\ wpc' = [wpc EXCEPT ![w] = "read"]
  /\ wi' = [wi EXCEPT ![w] = di]
  /\ dpc' = "run"
  /\ UNCHANGED <<now, store, builds, max, dur, concurrency, nc, cols, parentDone, reads,
                 cancelled, qpc, mpc, fi, result, gridVars, di>>
  /\ UNCHANGED <<buildVars, call>>

\* dispatcher "case indices <- i" meets worker w "case i, open := <-indices";
\* both selects also wait on ctx.Done(), which wins once ctx is done
WorkerReceive(w) ==
  /\ dpc = "parked"
  /\ wpc[w] = "select"
  /\ ~CtxDone
  /\ wpc' = [wpc EXCEPT ![w] = "read"]
  /\ wi' = [wi EXCEPT ![w] = di]
  /\ di' = di + 1
  /\ dpc' = "run"
  /\ UNCHANGED <<now, store, builds, max, dur, concurrency, nc, cols, parentDone, reads,
                 cancelled, qpc, mpc, fi, result, gridVars>>
  /\ UNCHANGED <<buildVars, call>>

\* worker w: indices is closed, "if !open { return }"
WorkerClosed(w) ==
  /\ wpc[w] = "select"
  /\ dpc = "done"
  /\ wpc' = [wpc EXCEPT ![w] = "done"]
  /\ UNCHANGED <<now, store, builds, max, dur, concurrency, nc, cols, parentDone,
                 cancelled, dpc, di, wi, reads, qpc, mpc, fi, result, gridVars>>
  /\ UNCHANGED <<buildVars, call>>

\* worker w: case <-ctx.Done(): return
WorkerCtxDone(w) ==
  /\ wpc[w] = "select"
  /\ CtxDone
  /\ wpc' = [wpc EXCEPT ![w] = "done"]
  /\ UNCHANGED <<now, store, builds, max, dur, concurrency, nc, cols, parentDone,
                 cancelled, dpc, di, wi, reads, qpc, mpc, fi, result, gridVars>>
  /\ UNCHANGED <<buildVars, call>>

\* a worker that returns without reporting the error of ReadBuild
WorkerReadBuildDropError(w) ==
  /\ wpc[w] = "read"
  /\ reads' = Append(reads, wi[w])
  /\ LET b == builds[wi[w]]
         found == store[b.Prefix]
         c == ReadBuildColumn(b.Prefix, found.Started, found.Finished,
                              found.Junit, now)
     IN IF found.Err # "none"
        THEN /\ wpc' = [wpc EXCEPT ![w] = "done"]
             /\ UNCHANGED cols
        ELSE /\ cols' = [cols EXCEPT ![wi[w]] = <<c>>]
             /\ wpc' = [wpc EXCEPT ![w] =
                          IF IsOld(c) THEN "signal" ELSE "select"]
  /\ UNCHANGED <<now, store, builds, max, dur, concurrency, nc, parentDone,
                 cancelled, dpc, di, wi, qpc, mpc, fi, result, gridVars>>
  /\ UNCHANGED <<buildVars, call>>

\* a worker that stores its column at the dispatcher's loop variable
WorkerReadBuildSharedIndex(w) ==
  /\ wpc[w] = "read"
  /\ reads' = Append(reads, wi[w])
  /\ LET b == builds[wi[w]]
         found == store[b.Prefix]
         c == ReadBuildColumn(b.Prefix, found.Started, found.Finished,
                              found.Junit, now)
         slot == IF di < lb THEN di ELSE lb - 1
     IN IF found.Err # "none"
        THEN /\ wpc' = [wpc EXCEPT ![w] = "senderr"]
             /\ UNCHANGED cols
        ELSE /\ cols' = [cols EXCEPT ![slot] = <<c>>]
             /\ wpc' = [wpc EXCEPT ![w] =
                          IF IsOld(c) THEN "signal" ELSE "select"]
  /\ UNCHANGED <<now, store, builds, max, dur, concurrency, nc, parentDone,
                 cancelled, dpc, di, wi, qpc, mpc, fi, result, gridVars>>
  /\ UNCHANGED <<buildVars, call>>

\* worker w: c, err := ReadBuild(b); on success cols[i] = c
WorkerReadBuild(w) ==
  /\ wpc[w] = "read"
  /\ reads' = Append(reads, wi[w])
  /\ LET b == builds[wi[w]]
         found == store[b.Prefix]
         c == ReadBuildColumn(b.Prefix, found.Started, found.Finished,
                              found.Junit, now)
     IN IF found.Err # "none"
        THEN /\ wpc' = [wpc EXCEPT ![w] = "senderr"]
             /\ UNCHANGED cols
        ELSE /\ cols' = [cols EXCEPT ![wi[w]] = <<c>>]
             /\ wpc' = [wpc EXCEPT ![w] =
                          IF IsOld(c) THEN "signal" ELSE "select"]
  /\ UNCHANGED <<now, store, builds, max, dur, concurrency, nc, parentDone,
                 cancelled, dpc, di, wi, qpc, mpc, fi, result, gridVars>>
  /\ UNCHANGED <<buildVars, call>>

\* "old <- i" without the default case: the worker waits for the dispatcher
WorkerSignalOldBlocking(w) ==
  /\ wpc[w] = "signal"
  /\ \/ /\ dpc = "parked"
        /\ ~CtxDone
        /\ dpc' = "done"
     \/ /\ CtxDone
        /\ UNCHANGED dpc
  /\ wpc' = [wpc EXCEPT ![w] = "select"]
  /\ UNCHANGED <<now, store, builds, max, dur, concurrency, nc, cols, parentDone,
                 cancelled, di, wi, reads, qpc, mpc, fi, result, gridVars>>
  /\ UNCHANGED <<buildVars, call>>

\* worker w: the non-blocking "old <- i": delivered when the dispatcher
\* already waits in its select (which then returns) and ctx is not done,
\* dropped (case <-ctx.Done() or default) otherwise
WorkerSignalOld(w) ==
  /\ wpc[w] = "signal"
  /\ \/ /\ dpc = "parked"
        /\ ~CtxDone
        /\ dpc' = "done"
     \/ UNCHANGED dpc
  /\ wpc' = [wpc EXCEPT ![w] = "select"]
  /\ UNCHANGED <<now, store, builds, max, dur, concurrency, nc, cols, parentDone,
                 cancelled, di, wi, reads, qpc, mpc, fi, result, gridVars>>
  /\ UNCHANGED <<buildVars, call>>

\* worker w "ec <- err" meets ReadBuilds "case err := <-ec" with err != nil:
\* cancel() and return the error
WorkerSendError(w) ==
  /\ wpc[w] = "senderr"
  /\ mpc = "select"
  /\ wpc' = [wpc EXCEPT ![w] = "done"]
  /\ cancelled' = TRUE
  /\ result' = "error"
  /\ mpc' = "done"
  /\ UNCHANGED <<now, store, builds, max, dur, concurrency, nc, cols, parentDone,
                 dpc, di, wi, reads, qpc, fi, gridVars>>
  /\ UNCHANGED <<buildVars, call>>

\* a wg.Wait() that returns at once
WaiterNoWait ==
  /\ qpc = "wait"
  /\ qpc' = "select"
  /\ UNCHANGED <<now, store, builds, max, dur, concurrency, nc, cols, parentDone,
                 cancelled, dpc, di, wpc, wi, reads, mpc, fi, result, gridVars>>
  /\ UNCHANGED <<buildVars, call>>

\* wg.Wait() returns: the dispatcher and every worker have exited
WaiterWait ==
  /\ qpc = "wait"
  /\ dpc = "done"
  /\ \A w \in Workers : wpc[w] = "done"
  /\ qpc' = "select"
  /\ UNCHANGED <<now, store, builds, max, dur, concurrency, nc, cols, parentDone,
                 cancelled, dpc, di, wpc, wi, reads, mpc, fi, result, gridVars>>
  /\ UNCHANGED <<buildVars, call>>

\* waiting goroutine: case <-ctx.Done()
WaiterCtxDone ==
  /\ qpc = "select"
  /\ CtxDone
  /\ qpc' = "done"
  /\ UNCHANGED <<now, store, builds, max, dur, concurrency, nc, cols, parentDone,
                 cancelled, dpc, di, wpc, wi, reads, mpc, fi, result, gridVars>>
  /\ UNCHANGED <<buildVars, call>>

\* waiting goroutine "ec <- nil" meets ReadBuilds "case err := <-ec"; both
\* selects also wait on ctx.Done(), which wins once ctx is done
WaiterSendNil ==
  /\ qpc = "select"
  /\ mpc = "select"
  /\ ~CtxDone
  /\ qpc' = "done"
  /\ mpc' = "feed"
  /\ UNCHANGED <<now, store, builds, max, dur, concurrency, nc, cols, parentDone,
                 cancelled, dpc, di, wpc, wi, reads, fi, result, gridVars>>
  /\ UNCHANGED <<buildVars, call>>

\* ReadBuilds: case <-ctx.Done(): cancel(); return "interrupted reading"
MainCtxDone ==
  /\ mpc = "select"
  /\ CtxDone
  /\ cancelled' = TRUE
  /\ result' = "error"
  /\ mpc' = "done"
  /\ UNCHANGED <<now, store, builds, max, dur, concurrency, nc, cols, parentDone,
                 dpc, di, wpc, wi, reads, qpc, fi, gridVars>>
  /\ UNCHANGED <<buildVars, call>>

\* insert pointer a into the sorted pointers seq, after all pointers whose
\* row name is not greater (stable)
RECURSIVE InsertRow(_, _, _)
InsertRow(seq, a, hp) ==
  IF seq = <<>> THEN <<a>>
  ELSE IF NaturalLess(hp[a].Name, hp[seq[Len(seq)]].Name)
  THEN Append(InsertRow(SubSeq(seq, 1, Len(seq) - 1), a, hp), seq[Len(seq)])
  ELSE Append(seq, a)

\* grid.Rows left in the order the rows were created
RowsUnsorted(seq, hp) == seq

\* sort.Stable(Rows(grid.Rows)): Rows.Less is NaturalLess on Name
RECURSIVE SortStableRows(_, _)
SortStableRows(seq, hp) ==
  IF seq = <<>> THEN <<>>
  ELSE InsertRow(SortStableRows(SubSeq(seq, 1, Len(seq) - 1), hp), seq[Len(seq)], hp)

\* one iteration of "for _, c := range cols": give up when ctx is done,
\* skip an empty slot, else AppendColumn and break after the first column
\* that started before stop
MainFeed ==
  /\ mpc = "feed"
  /\ fi < lb
  /\ IF CtxDone
     THEN /\ cancelled' = TRUE
          /\ result' = "error"
          /\ mpc' = "done"
          /\ UNCHANGED <<fi, gridVars>>
     ELSE IF cols[fi] = Nil
     THEN /\ fi' = fi + 1
          /\ UNCHANGED <<cancelled, result, mpc, gridVars>>
     ELSE \E torder \in KeyOrders(DOMAIN cols[fi][1].Rows) :
            \E korder \in KeyOrders({elapsedKey}) :
              LET res == AppendColumn(GroupHeaders, nc, grid, heap, rows,
                                      cols[fi][1], torder, korder)
              IN /\ grid' = res.grid
                 /\ heap' = res.heap
                 /\ rows' = res.rows
                 /\ fed' = Append(fed, res.assigned)
                 /\ IF FeedBreaks(cols[fi][1])
                    THEN mpc' = "sort" /\ fi' = fi
                    ELSE mpc' = mpc /\ fi' = fi + 1
                 /\ UNCHANGED <<cancelled, result>>
  /\ UNCHANGED <<now, store, builds, max, dur, concurrency, nc, cols, parentDone,
                 dpc, di, wpc, wi, reads, qpc>>
  /\ UNCHANGED <<buildVars, call>>

\* after the loop: sort.Stable(Rows(grid.Rows)); cancel(); return grid, nil
MainReturn ==
  /\ \/ mpc = "sort"
     \/ mpc = "feed" /\ fi = lb
  /\ grid' = [grid EXCEPT !.Rows = SortStableRows(grid.Rows, heap)]
  /\ cancelled' = TRUE
  /\ result' = "grid"
  /\ mpc' = "done"
  /\ UNCHANGED <<now, store, builds, max, dur, concurrency, nc, cols, parentDone,
                 dpc, di, wpc, wi, reads, qpc, fi, heap, rows, fed>>
  /\ UNCHANGED <<buildVars, call>>

Next ==
  \/ MainStart
  \/ ParentCancel
  \/ DispatcherLoop
  \/ DispatcherCtxDone
  \/ \E w \in Workers : WorkerReceive(w)
  \/ \E w \in Workers : WorkerClosed(w)
  \/ \E w \in Workers : WorkerCtxDone(w)
  \/ \E w \in Workers : WorkerReadBuild(w)
  \/ \E w \in Workers : WorkerSignalOld(w)
  \/ \E w \in Workers : WorkerSendError(w)
  \/ WaiterWait
  \/ WaiterCtxDone
  \/ WaiterSendNil
  \/ MainCtxDone
  \/ MainFeed
  \/ MainReturn

Spec == Init /\ [][Next]_vars

\* ------------------------------------------------ the columns of the grid
\* the ids of the builds of the grid columns, in column order
ColumnBuilds == [j \in 1..Len(grid.Columns) |-> grid.Columns[j].Build]

\* the prefix of the listed build whose directory basename is id
PrefixOfId(id) == CHOOSE p \in DOMAIN store : Base(p) = id

\* the sequential reader (the earlier ReadBuilds): the ids of the columns
\* it appends when it continues with the build at index b
RECURSIVE SequentialColumns(_)
SequentialColumns(b) ==
  IF b >= Cardinality(DOMAIN builds) \/ (max > 0 /\ b + 1 > max) THEN <<>>
  ELSE LET found == store[builds[b].Prefix]
       IN IF found.Err # "none" THEN SequentialColumns(b + 1)
          ELSE <<Base(builds[b].Prefix)>> \o
               (IF found.Started.Timestamp < stopUnix THEN <<>>
                ELSE SequentialColumns(b + 1))

\* the kept indices whose build is readable and started before stop
OldIndices ==
  {i \in 0..(lb - 1) : /\ store[builds[i].Prefix].Err = "none"
                       /\ store[builds[i].Prefix].Started.Timestamp < stopUnix}

\* k: the smallest old index, or the last kept index when there is none
LastFed ==
  IF OldIndices = {} THEN lb - 1
  ELSE CHOOSE i \in OldIndices : \A i2 \in OldIndices : i <= i2

\* C9: the columns of the grid ReadBuilds returns are in strictly
\* decreasing natural order of build prefix, whatever the order in which
\* the workers finished reading the builds.
C9_ColumnsNewestFirst ==
  result = "grid" =>
    \A j \in 1..(Len(grid.Columns) - 1) :
      NaturalLess(PrefixOfId(grid.Columns[j + 1].Build),
                  PrefixOfId(grid.Columns[j].Build))

\* a grid of three columns whose builds were read out of order
C9_Witness ==
  /\ result = "grid"
  /\ Len(grid.Columns) = 3
  /\ \E a, b \in 1..Len(reads) : a < b /\ reads[a] > reads[b]

ReadErr(a) == store[builds[reads[a]].Prefix].Err

\* C11: ReadBuilds never reads a build whose index in the sorted build list
\* is >= max, and the grid it returns has at most max columns.
C11_AtMostMaxBuilds ==
  /\ \A a \in 1..Len(reads) : reads[a] < max
  /\ result = "grid" => Len(grid.Columns) <= max

\* more builds are listed than max; exactly the first max are read and fed
C11_Witness ==
  /\ result = "grid"
  /\ Cardinality(DOMAIN builds) > max
  /\ Len(reads) = max
  /\ Len(grid.Columns) = max

\* C12: when reading a build fails because its started.json is missing,
\* the driver skips that build and continues: ReadBuilds, not interrupted
\* by its caller and with no other read failing, returns a grid, which has
\* no column for the skipped build.
C12_NotStartedIsSkipped ==
  (/\ mpc = "done"
   /\ concurrency > 0
   /\ ~parentDone
   /\ \E a \in 1..Len(reads) : ReadErr(a) = "notstarted"
   /\ \A a \in 1..Len(reads) : ReadErr(a) \in {"none", "notstarted"}) =>
    /\ result = "grid"
    /\ \A a \in 1..Len(reads) :
         ReadErr(a) = "notstarted" =>
           \A j \in 1..Len(grid.Columns) :
             grid.Columns[j].Build # Base(builds[reads[a]].Prefix)

\* C13: once ReadBuild has returned an error other than build-not-started
\* for a dispatched build, the driver never receives the nil notification
\* (it never reaches the feed loop) and ReadBuilds never returns a grid.
C13_ErrorBeatsNil ==
  (\E a \in 1..Len(reads) : ReadErr(a) = "failed") =>
    /\ mpc \notin {"feed", "sort"}
    /\ result # "grid"

\* the first build read fails while another worker goes on to store a
\* column, and ReadBuilds returns the error without its caller cancelling
C13_Witness ==
  /\ result = "error"
  /\ ~parentDone
  /\ Len(reads) >= 2
  /\ ReadErr(1) = "failed"
  /\ \E i \in DOMAIN cols : cols[i] # Nil

\* the dispatcher and every worker have exited
AllExited == dpc = "done" /\ \A w \in Workers : wpc[w] = "done"

\* the goroutines of ReadBuilds are scheduled fairly; its caller need not
\* ever cancel
Fairness ==
  /\ WF_vars(MainStart \/ MainCtxDone \/ MainFeed \/ MainReturn)
  /\ WF_vars(DispatcherLoop \/ DispatcherCtxDone)
  /\ WF_vars(WaiterWait \/ WaiterCtxDone \/ WaiterSendNil)
  /\ \A w \in 1..MaxWorkers :
       WF_vars(w \in Workers /\
               (WorkerReceive(w) \/ WorkerClosed(w) \/ WorkerCtxDone(w) \/
                WorkerReadBuild(w) \/ WorkerSignalOld(w) \/ WorkerSendError(w)))

\* the fair runs of ReadBuilds over a time window, with max below MaxBuilds
InitFair == Init /\ max < MaxBuilds /\ dur # 0

SpecFair == InitFair /\ [][Next]_vars /\ Fairness

\* C14: after the first worker error has made ReadBuilds cancel the group
\* context and return, the dispatcher and every worker eventually exit.
C14_WorkersExitAfterError ==
  (result = "error" /\ concurrency > 0 /\ ~parentDone) ~> AllExited

\* the steps of ReadBuilds and its goroutines before the feed loop, the
\* caller's cancellation left out
ReadingStep ==
  \/ MainStart
  \/ DispatcherLoop
  \/ DispatcherCtxDone
  \/ \E w \in Workers : WorkerReceive(w)
  \/ \E w \in Workers : WorkerClosed(w)
  \/ \E w \in Workers : WorkerCtxDone(w)
  \/ \E w \in Workers : WorkerReadBuild(w)
  \/ \E w \in Workers : WorkerSignalOld(w)
  \/ \E w \in Workers : WorkerSendError(w)
  \/ WaiterWait
  \/ WaiterCtxDone
  \/ WaiterSendNil
  \/ MainCtxDone

\* the steps ReadBuilds and its goroutines can still take, at most: those
\* of the feed loop, of the dispatcher (twice per index left, weighted
\* above the worker step an index starts), of the workers and of the waiter
RECURSIVE SumRank(_, _)
SumRank(f, S) ==
  IF S = {} THEN 0
  ELSE LET x == CHOOSE y \in S : TRUE IN f[x] + SumRank(f, S \ {x})
StepsLeft ==
  LET main == CASE mpc = "start" -> lb + 4
                [] mpc = "select" -> lb + 3
                [] mpc = "feed" -> (lb - fi) + 2
                [] mpc = "sort" -> 1
                [] OTHER -> 0
      disp == CASE dpc \in {"idle", "run"} -> 2 * (lb - di) + 2
                [] dpc = "parked" -> 2 * (lb - di) + 1
                [] OTHER -> 0
      work == [w \in DOMAIN wpc |->
                 CASE wpc[w] = "read" -> 3
                   [] wpc[w] \in {"signal", "senderr"} -> 2
                   [] wpc[w] \in {"idle", "select"} -> 1
                   [] OTHER -> 0]
      wait == CASE qpc \in {"idle", "wait"} -> 2
                [] qpc = "select" -> 1
                [] OTHER -> 0
  IN main + 4 * disp + SumRank(work, DOMAIN work) + wait

\* C35: for every worker count >= 1, if every ReadBuild call returns and
\* the parent context is not cancelled, ReadBuilds eventually returns (a
\* grid or an error) under every interleaving of dispatcher, workers, stop
\* signals and errors, and there is no reachable state in which the driver
\* and all its goroutines wait on each other: every step leaves fewer
\* steps to take, and while ReadBuilds has not returned either it is in
\* its feed loop, which it runs alone, or some goroutine can take a step.
C35_ReadBuildsReturns ==
  /\ [][parentDone' = parentDone => (StepsLeft' < StepsLeft /\ StepsLeft' >= 0)]_vars
  /\ []((concurrency >= 1 /\ result = "none" /\ ~parentDone) =>
         \/ mpc \in {"feed", "sort"} /\ fi <= lb
         \/ ENABLED ReadingStep)

\* ReadBuilds has returned a grid although a stop signal found the
\* dispatcher gone, or an error with another failed worker left behind
C35_Witness ==
  /\ ~parentDone
  /\ concurrency >= 2
  /\ \/ /\ result = "grid"
        /\ Cardinality({i \in DOMAIN cols : cols[i] # Nil /\ IsOld(cols[i][1])}) >= 2
     \/ /\ result = "error"
        /\ \E w \in Workers : wpc[w] = "senderr"

\* C20: when ReadBuilds returns a grid, the sequence of its row names is
\* sorted in natural order (digit runs compared as numbers): each name is
\* naturally less than the next.
C20_RowsInNaturalOrder ==
  result = "grid" =>
    \A i \in 1..(Len(grid.Rows) - 1) :
      NaturalLess(GridRows[i].Name, GridRows[i + 1].Name)

\* row t10 was created by the first column and row t9 by a later one; the
\* returned grid has t9 right before t10
C20_Witness ==
  /\ result = "grid"
  /\ Len(fed) >= 2
  /\ \E k \in 1..Len(fed[1]) : fed[1][k].name = NameT10
  /\ \A k \in 1..Len(fed[1]) : fed[1][k].name # NameT9
  /\ \E i \in 1..(Len(grid.Rows) - 1) :
       GridRows[i].Name = NameT9 /\ GridRows[i + 1].Name = NameT10

\* the kept indices at which a reader going through the builds in index
\* order ends: the build fails to read, or started before stop
EndIndices ==
  {i \in 0..(lb - 1) : \/ store[builds[i].Prefix].Err # "none"
                       \/ store[builds[i].Prefix].Started.Timestamp < stopUnix}

\* what ReadBuilds returns when the builds are read one after the other in
\* index order: the error of the first failing build that is not behind
\* an old one, and a grid otherwise
InOrderResult ==
  IF EndIndices = {} THEN "grid"
  ELSE LET e == CHOOSE i \in EndIndices : \A i2 \in EndIndices : i <= i2
       IN IF store[builds[e].Prefix].Err # "none" THEN "error" ELSE "grid"

\* C21: two executions of ReadBuilds over the same builds, configuration
\* and clock return the same grid whatever the interleaving of the
\* workers: every execution its caller does not cancel returns what the
\* execution that reads the builds in index order returns, a grid with the
\* columns of the builds at indices 0..k or an error.
C21_SameGridEveryRun ==
  (mpc = "done" /\ concurrency > 0 /\ ~parentDone) =>
    /\ result = InOrderResult
    /\ result = "grid" =>
         ColumnBuilds = [j \in 1..(LastFed + 1) |-> Base(builds[j - 1].Prefix)]

\* the dispatcher has returned on a stop signal: before the last index,
\* with the group context still live
StoppedByOld == dpc = "done" /\ di < lb /\ ~CtxDone

\* ReadBuilds has gone on to assemble the grid
Assembling == mpc \in {"feed", "sort"} \/ result = "grid"

\* C29: after the dispatcher of ReadBuilds has received a stop signal no
\* further build index is sent to any worker and the index channel stays
\* closed (this holds however the dispatcher returned); every build
\* already dispatched is still read (its worker is never held up) and is
\* in its slot before ReadBuilds assembles the grid; a worker that
\* signals stop can always go on.
C29_StopEndsDispatch ==
  /\ [][dpc = "done" => (dpc' = "done" /\ di' = di /\ wi' = wi)]_vars
  /\ [](\A w \in 1..MaxWorkers :
          /\ (w \in Workers /\ wpc[w] = "signal") => ENABLED WorkerSignalOld(w)
          /\ (w \in Workers /\ wpc[w] = "read") => ENABLED WorkerReadBuild(w))
  /\ [](Assembling => \A i \in 0..(di - 1) : cols[i] # Nil)

\* the dispatcher has stopped on the signal of a worker while another
\* worker is still reading the last build dispatched
C29_Witness ==
  /\ StoppedByOld
  /\ \E w \in Workers : wpc[w] = "read" /\ wi[w] = di - 1
  /\ \E a \in 1..Len(reads) :
       /\ reads[a] < di - 1
       /\ cols[reads[a]] # Nil
       /\ IsOld(cols[reads[a]][1])

\* the workers that are inside ReadBuild
Reading == {w \in Workers : wpc[w] = "read"}

\* C32: in ReadBuilds every build index is sent to at most one worker and
\* ReadBuild is called at most once per index (the indices sent so far are
\* those read and those being read, each once), and each worker reads one
\* build at a time, so never more than concurrency builds are being read.
C32_OneReadPerIndex ==
  /\ \A a, b \in 1..Len(reads) : reads[a] = reads[b] => a = b
  /\ \A w \in Reading :
       /\ wi[w] \notin Range(reads)
       /\ \A v \in Reading : wi[v] = wi[w] => v = w
  /\ Cardinality(Range(reads) \cup {wi[w] : w \in Reading}) = di
  /\ Cardinality(Reading) <= concurrency

\* two workers are inside ReadBuild at once, after another read has ended
C32_Witness ==
  /\ Cardinality(Reading) = 2
  /\ Len(reads) >= 1

\* C33: each slot of the slot array of ReadBuilds is written at most once
\* (only an empty slot is written), only by the worker that received its
\* index, and on the path that returns a grid the feed loop reads the slots
\* only after the dispatcher and all workers have exited, so that no slot
\* is written while or after it is read.
C33_SlotsHaveOneWriter ==
  /\ [][\A i \in DOMAIN cols \cap DOMAIN cols' :
          cols'[i] # cols[i] =>
            /\ cols[i] = Nil
            /\ \E w \in Workers : wpc[w] = "read" /\ wi[w] = i /\ wpc'[w] # "read"
            /\ ~Assembling]_vars
  /\ [](Assembling => AllExited)

\* the feed loop is reading slots that two different workers have written
C33_Witness ==
  /\ mpc = "feed"
  /\ fi >= 1
  /\ \E a, b \in 1..Len(reads) : a # b /\ cols[reads[a]] # Nil /\ cols[reads[b]] # Nil
  /\ concurrency >= 2

\* the slots that hold a column
Filled == {i \in DOMAIN cols : cols[i] # Nil}

\* C34: when ReadBuilds reaches the feed phase (no worker error), the
\* non-empty slots of the slot array form a contiguous prefix of the
\* indices: if slot i holds a column then every slot j < i holds one,
\* under every interleaving and every loss of a stop signal.
C34_FilledSlotsArePrefix ==
  Assembling => \A i \in Filled : \A j \in 0..(i - 1) : j \in Filled

\* the feed phase with a proper prefix filled: two columns, both old (the
\* stop signal of one of them was lost or came late), and an empty slot
C34_Witness ==
  /\ Assembling
  /\ Cardinality(Filled) >= 2
  /\ Filled # DOMAIN cols
  /\ \A i \in Filled : IsOld(cols[i][1])

\* C36: when ReadBuilds is called with a zero window (dur = 0), no worker
\* ever signals stop and the feed loop never breaks early: if no build
\* read fails (and the caller does not cancel), ReadBuilds returns a grid,
\* and the grid has one column for each of the first min(len(builds), max)
\* builds.
C36_ZeroWindowReadsAll ==
  dur = 0 =>
    /\ \A w \in DOMAIN wpc : wpc[w] # "signal"
    /\ mpc # "sort"
    /\ (/\ mpc = "done"
        /\ concurrency > 0
        /\ ~parentDone
        /\ \A i \in 0..(lb - 1) : store[builds[i].Prefix].Err = "none") =>
         result = "grid"
    /\ result = "grid" =>
         ColumnBuilds = [j \in 1..lb |-> Base(builds[j - 1].Prefix)]

\* a zero window, more builds listed than max, two workers: the grid has
\* the first max builds
C36_Witness ==
  /\ dur = 0
  /\ result = "grid"
  /\ concurrency = 2
  /\ Cardinality(DOMAIN builds) > max
  /\ Len(grid.Columns) = max

\* ------------------------------------------- ReadBuild and its goroutines
\* SpecBuild runs one ReadBuild(build) call: the goroutines that fetch
\* started.json and finished.json, list the artifacts, start one reader per
\* junit artifact, aggregate the rows and wait on wg, and ReadBuild itself.
\* A goroutine meets another on an unbuffered channel in one step; a select
\* that also has "case <-ctx.Done()" cannot complete a send or receive with
\* another such select once ctx is done, since both then take ctx.Done().
MaxArtifacts == 2

\* "r > 50e6": the largest remaining size an artifact may report
MaxRemain == 50000000

\* ValidateName(".../artifacts/junit_01.xml")
JunitMeta ==
  [k \in {"Context", "Timestamp", "Thread"} |->
     IF k = "Context" THEN <<"0", "1">> ELSE EmptyStr]

\* the objects that may lie below <prefix>artifacts/, in listing order
\* (build-log.txt, junit_01.xml, junit_02.xml, junit_03.xml): Meta is what
\* ValidateName returns for the name (Nil: not a junit name), Remain what
\* ar.Remain() reports, Body the suites the file parses to
ArtifactPool ==
  <<[Meta |-> Nil, Remain |-> 1000, Body |-> <<>>],
    [Meta |-> <<JunitMeta>>, Remain |-> 1000,
     Body |-> <<[Name |-> EmptyStr,
                 Results |-> <<[Name |-> NameT9, Time |-> 0, Failure |-> <<<<"x">>>>,
                                Skipped |-> Nil, Output |-> Nil]>>]>>],
    [Meta |-> <<JunitMeta>>, Remain |-> MaxRemain,
     Body |-> <<[Name |-> EmptyStr,
                 Results |-> <<[Name |-> NameT10, Time |-> 2, Failure |-> Nil,
                                Skipped |-> Nil, Output |-> Nil]>>]>>],
    [Meta |-> <<JunitMeta>>, Remain |-> MaxRemain + 1, Body |-> <<>>]>>

\* the elements of seq at the indices S, in order
RECURSIVE Pick(_, _)
Pick(seq, S) ==
  IF S = {} THEN <<>>
  ELSE LET i == CHOOSE x \in S : \A y \in S : x <= y
       IN <<seq[i]>> \o Pick(seq, S \ {i})

\* the listings of up to MaxArtifacts objects
ArtifactLists ==
  {Pick(ArtifactPool, S) :
     S \in {T \in SUBSET (1..Len(ArtifactPool)) : Cardinality(T) <= MaxArtifacts}}

\* started.json: absent, written 10 minutes ago, or over 24 hours ago
StartedKinds(clock) ==
  {[exists |-> FALSE, Timestamp |-> 0],
   [exists |-> TRUE, Timestamp |-> clock - 600],
   [exists |-> TRUE, Timestamp |-> clock - Day - 600]}

\* finished.json: absent, passed or failed
FinishedKinds(clock) ==
  {[exists |-> FALSE, Timestamp |-> 0, Passed |-> FALSE, Metadata |-> <<>>],
   [exists |-> TRUE, Timestamp |-> clock - 300, Passed |-> TRUE,
    Metadata |-> ("node" :> <<"n", "1">>)],
   [exists |-> TRUE, Timestamp |-> clock - 300, Passed |-> FALSE,
    Metadata |-> <<>>]}

\* "for t, rs := range r { rows[t] = append(rows[t], rs...) }"
MergeRows(rs, r) ==
  [t \in DOMAIN rs \cup DOMAIN r |->
     (IF t \in DOMAIN rs THEN rs[t] ELSE <<>>) \o
     (IF t \in DOMAIN r THEN r[t] ELSE <<>>)]

\* the Started and Finished values the goroutines send on sc and fc
StartedOf(b) == [Timestamp |-> b.Started.Timestamp]
FinishedOf(b) ==
  [running |-> ~b.Finished.exists, Timestamp |-> b.Finished.Timestamp,
   Passed |-> b.Finished.Passed, Metadata |-> b.Finished.Metadata]

Artifacts == 1..Len(build.Artifacts)

\* <-ctx.Done() is ready in ReadBuild
BuildCtxDone == bctx.expired \/ bctx.cancelled

\* a reader has sent on the closed rc: the process has panicked
Panicked == bpc.main = "panic"

otherVars == <<driverVars, nc, gridVars, call>>

InitBuild ==
  /\ call = <<>>
  /\ now \in Clocks
  /\ store = <<>>
  /\ builds = <<>>
  /\ max = 0
  /\ dur = 0
  /\ concurrency = 0
  /\ nc = DefaultNameConfig
  /\ cols = <<>>
  /\ parentDone = FALSE
  /\ cancelled = FALSE
  /\ dpc = "idle"
  /\ di = 0
  /\ wpc = <<>>
  /\ wi = <<>>
  /\ reads = <<>>
  /\ qpc = "idle"
  /\ mpc = "readbuild"
  /\ fi = 0
  /\ result = "none"
  /\ grid = [Columns |-> <<>>, Rows |-> <<>>]
  /\ heap = <<>>
  /\ rows = <<>>
  /\ fed = <<>>
  /\ \E s \in StartedKinds(now), f \in FinishedKinds(now), arts \in ArtifactLists :
       build = [Prefix |-> PrefixPool[1], Started |-> s, Finished |-> f,
                Artifacts |-> arts]
  /\ bctx = [expired |-> FALSE, cancelled |-> FALSE, early |-> FALSE]
  /\ bpc = [main |-> "loop", st |-> "fetch", fn |-> "fetch", ls |-> "next",
            dl |-> "range", ag |-> "range", wt |-> "wait",
            ar |-> [k \in Artifacts |-> "none"]]
  /\ bloc = [started |-> Nil, finished |-> Nil, next |-> 1, rows |-> <<>>,
             agg |-> <<>>,
             err |-> [t \in {"st", "fn", "ls"} |-> ""],
             arerr |-> [k \in Artifacts |-> ""]]
  /\ bret = [kind |-> "none", err |-> "", col |-> Nil]

\* the junit artifacts, and whether the rows of all of them are aggregated
JunitArtifacts == {k \in Artifacts : build.Artifacts[k].Meta # Nil}
AllAggregated ==
  /\ bpc.dl = "done"
  /\ bpc.ag = "done"
  /\ Range(bloc.agg) = JunitArtifacts

\* the 30-second deadline of ctx expires, or build.Context is cancelled
BuildExpire ==
  /\ bret.kind = "none"
  /\ ~Panicked
  /\ ~bctx.expired
  /\ bctx' = [bctx EXCEPT !.expired = TRUE, !.early = ~AllAggregated]
  /\ UNCHANGED <<otherVars, build, bpc, bloc, bret>>

\* started.json goroutine: s.NewReader(ctx) and Decode
StartedFetch ==
  /\ bpc.st = "fetch"
  /\ IF BuildCtxDone \/ ~build.Started.exists
     THEN /\ bpc' = [bpc EXCEPT !.st = "senderr"]
          /\ bloc' = [bloc EXCEPT !.err.st = "build has not started"]
     ELSE /\ bpc' = [bpc EXCEPT !.st = "send"]
          /\ UNCHANGED bloc
  /\ UNCHANGED <<otherVars, build, bctx, bret>>

\* finished.json goroutine: f.NewReader(ctx) and Decode; a missing object
\* gives the running sentinel
FinishedFetch ==
  /\ bpc.fn = "fetch"
  /\ IF BuildCtxDone
     THEN /\ bpc' = [bpc EXCEPT !.fn = "senderr"]
          /\ bloc' = [bloc EXCEPT !.err.fn = "could not open finished.json"]
     ELSE /\ bpc' = [bpc EXCEPT !.fn = "send"]
          /\ UNCHANGED bloc
  /\ UNCHANGED <<otherVars, build, bctx, bret>>

\* a goroutine takes "case <-ctx.Done()" instead of sending its value or
\* its error, and returns
TaskGiveUp(t) ==
  /\ BuildCtxDone
  /\ \/ bpc[t] = "senderr"
     \/ t \in {"st", "fn"} /\ bpc[t] = "send"
  /\ bpc' = [bpc EXCEPT ![t] = "done"]
  /\ UNCHANGED <<otherVars, build, bctx, bloc, bret>>

\* ReadBuild leaves its first loop with started s and finished f, received
\* last from goroutine t: a running build is returned at once
LeaveLoop(s, f, t) ==
  IF f.running
  THEN /\ bpc' = [bpc EXCEPT ![t] = "done", !.main = "done"]
       /\ bctx' = [bctx EXCEPT !.cancelled = TRUE]
       /\ bret' = [kind |-> "column", err |-> "",
                   col |-> <<ReadBuildColumn(build.Prefix, s, f, bloc.rows, now)>>]
  ELSE /\ bpc' = [bpc EXCEPT ![t] = "done", !.main = "select"]
       /\ UNCHANGED <<bctx, bret>>

\* first loop: case s := <-sc
BuildRecvStarted ==
  /\ bpc.main = "loop"
  /\ bpc.st = "send"
  /\ bloc' = [bloc EXCEPT !.started = <<StartedOf(build)>>]
  /\ IF bloc.finished # Nil
     THEN LeaveLoop(StartedOf(build), bloc.finished[1], "st")
     ELSE /\ bpc' = [bpc EXCEPT !.st = "done"]
          /\ UNCHANGED <<bctx, bret>>
  /\ UNCHANGED <<otherVars, build>>

\* first loop: case f := <-fc
BuildRecvFinished ==
  /\ bpc.main = "loop"
  /\ bpc.fn = "send"
  /\ bloc' = [bloc EXCEPT !.finished = <<FinishedOf(build)>>]
  /\ IF bloc.started # Nil
     THEN LeaveLoop(bloc.started[1], FinishedOf(build), "fn")
     ELSE /\ bpc' = [bpc EXCEPT !.fn = "done"]
          /\ UNCHANGED <<bctx, bret>>
  /\ UNCHANGED <<otherVars, build>>

\* ReadBuild can receive from ec: always in the first loop, whose select
\* has no ctx.Done() case, and in the second select while ctx is not done
ReceivesEc ==
  \/ bpc.main = "loop"
  \/ bpc.main = "select" /\ ~BuildCtxDone

\* case err := <-ec with the error of goroutine t: cancel() and return it
BuildRecvError(t) ==
  /\ bpc[t] = "senderr"
  /\ ReceivesEc
  /\ bpc' = [bpc EXCEPT ![t] = "done", !.main = "done"]
  /\ bctx' = [bctx EXCEPT !.cancelled = TRUE]
  /\ bret' = [kind |-> "error", err |-> bloc.err[t], col |-> Nil]
  /\ UNCHANGED <<otherVars, build, bloc>>

\* case err := <-ec with the error of the reader of artifact k
BuildRecvReaderError(k) ==
  /\ bpc.ar[k] = "senderr"
  /\ ReceivesEc
  /\ bpc' = [bpc EXCEPT !.ar[k] = "done", !.main = "done"]
  /\ bctx' = [bctx EXCEPT !.cancelled = TRUE]
  /\ bret' = [kind |-> "error", err |-> bloc.arerr[k], col |-> Nil]
  /\ UNCHANGED <<otherVars, build, bloc>>

\* case err := <-ec with the nil of the waiting goroutine: in the first
\* loop the select is left and the loop goes on; in the second select the
\* rows are merged into the column, which is returned
BuildRecvNil ==
  /\ bpc.wt = "select"
  /\ \/ /\ bpc.main = "loop"
        /\ bpc' = [bpc EXCEPT !.wt = "done"]
        /\ UNCHANGED <<bctx, bret>>
     \/ /\ bpc.main = "select"
        /\ ~BuildCtxDone
        /\ bpc' = [bpc EXCEPT !.wt = "done", !.main = "done"]
        /\ bctx' = [bctx EXCEPT !.cancelled = TRUE]
        /\ bret' = [kind |-> "column", err |-> "",
                    col |-> <<ReadBuildColumn(build.Prefix, bloc.started[1],
                                              bloc.finished[1], bloc.rows, now)>>]
  /\ UNCHANGED <<otherVars, build, bloc>>

\* second select: case <-ctx.Done(): cancel(); return "interrupted reading"
BuildInterrupted ==
  /\ bpc.main = "select"
  /\ BuildCtxDone
  /\ bpc' = [bpc EXCEPT !.main = "done"]
  /\ bctx' = [bctx EXCEPT !.cancelled = TRUE]
  /\ bret' = [kind |-> "error", err |-> "interrupted reading", col |-> Nil]
  /\ UNCHANGED <<otherVars, build, bloc>>

\* lister: a, err := ai.Next(). With ctx done the call fails unless the
\* listing was already fetched; iterator.Done ends the loop, and the
\* deferred close(ac) runs when the goroutine returns
ListNext ==
  /\ bpc.ls = "next"
  /\ \/ /\ BuildCtxDone
        /\ bpc' = [bpc EXCEPT !.ls = "senderr"]
        /\ bloc' = [bloc EXCEPT !.err.ls = "failed to list"]
     \/ /\ bpc' = [bpc EXCEPT !.ls = IF bloc.next <= Len(build.Artifacts)
                                     THEN "send" ELSE "done"]
        /\ UNCHANGED bloc
  /\ UNCHANGED <<otherVars, build, bctx, bret>>

\* lister "case ac <- a.Name" meets the dispatcher "for a := range ac",
\* which returns (closing rc) when ctx is done, skips a name ValidateName
\* rejects, and else starts a reader goroutine for the artifact
ListSend ==
  /\ bpc.ls = "send"
  /\ bpc.dl = "range"
  /\ bloc' = [bloc EXCEPT !.next = bloc.next + 1]
  /\ bpc' = IF BuildCtxDone
            THEN [bpc EXCEPT !.ls = "next", !.dl = "done"]
            ELSE IF build.Artifacts[bloc.next].Meta = Nil
            THEN [bpc EXCEPT !.ls = "next"]
            ELSE [bpc EXCEPT !.ls = "next", !.ar[bloc.next] = "read"]
  /\ UNCHANGED <<otherVars, build, bctx, bret>>

\* lister: case <-ctx.Done(): return "interrupted listing"
ListInterrupted ==
  /\ bpc.ls = "send"
  /\ BuildCtxDone
  /\ bpc' = [bpc EXCEPT !.ls = "senderr"]
  /\ bloc' = [bloc EXCEPT !.err.ls = "interrupted listing"]
  /\ UNCHANGED <<otherVars, build, bctx, bret>>

\* dispatcher: ac is closed, the range ends
DownloaderClosed ==
  /\ bpc.dl = "range"
  /\ bpc.ls = "done"
  /\ bpc' = [bpc EXCEPT !.dl = "wait"]
  /\ UNCHANGED <<otherVars, build, bctx, bloc, bret>>

\* dispatcher: awg.Wait() returns, then the deferred close(rc)
DownloaderWait ==
  /\ bpc.dl = "wait"
  /\ \A k \in Artifacts : bpc.ar[k] \in {"none", "done"}
  /\ bpc' = [bpc EXCEPT !.dl = "done"]
  /\ UNCHANGED <<otherVars, build, bctx, bloc, bret>>

\* reader of artifact k: NewReader(ctx), the size guard, ReadAll, the
\* "Keep going?" select and extractRows
ReaderRead(k) ==
  /\ bpc.ar[k] = "read"
  /\ IF BuildCtxDone
     THEN /\ bpc' = [bpc EXCEPT !.ar[k] = "senderr"]
          /\ bloc' = [bloc EXCEPT !.arerr[k] = "could not read"]
     ELSE IF build.Artifacts[k].Remain > MaxRemain
     THEN /\ bpc' = [bpc EXCEPT !.ar[k] = "senderr"]
          /\ bloc' = [bloc EXCEPT !.arerr[k] = "too large"]
     ELSE /\ bpc' = [bpc EXCEPT !.ar[k] = "emit"]
          /\ UNCHANGED bloc
  /\ UNCHANGED <<otherVars, build, bctx, bret>>

\* reader k "rc <- rows" meets the aggregator "for r := range rc", which
\* returns when ctx is done and else appends the rows
ReaderEmit(k) ==
  /\ bpc.ar[k] = "emit"
  /\ bpc.ag = "range"
  /\ bpc.dl # "done"
  /\ IF BuildCtxDone
     THEN /\ bpc' = [bpc EXCEPT !.ar[k] = "done", !.ag = "done"]
          /\ UNCHANGED bloc
     ELSE /\ bpc' = [bpc EXCEPT !.ar[k] = "done"]
          /\ bloc' = [bloc EXCEPT
                        !.rows = MergeRows(bloc.rows,
                                           extractRows(build.Artifacts[k].Body,
                                                       build.Artifacts[k].Meta[1])),
                        !.agg = Append(bloc.agg, k)]
  /\ UNCHANGED <<otherVars, build, bctx, bret>>

\* reader k "rc <- rows" after the dispatcher has closed rc: the send
\* panics, which ends the process and every goroutine with it
ReaderPanic(k) ==
  /\ bpc.ar[k] = "emit"
  /\ bpc.dl = "done"
  /\ bpc' = [main |-> "panic", st |-> "panic", fn |-> "panic", ls |-> "panic",
             dl |-> "panic", ag |-> "panic", wt |-> "panic",
             ar |-> [j \in Artifacts |-> "panic"]]
  /\ UNCHANGED <<otherVars, build, bctx, bloc, bret>>

\* reader k takes "case <-ctx.Done()" instead of sending its error
ReaderGiveUp(k) ==
  /\ bpc.ar[k] = "senderr"
  /\ BuildCtxDone
  /\ bpc' = [bpc EXCEPT !.ar[k] = "done"]
  /\ UNCHANGED <<otherVars, build, bctx, bloc, bret>>

\* aggregator: rc is closed, the range ends
AggregatorClosed ==
  /\ bpc.ag = "range"
  /\ bpc.dl = "done"
  /\ bpc' = [bpc EXCEPT !.ag = "done"]
  /\ UNCHANGED <<otherVars, build, bctx, bloc, bret>>

\* a wg.Wait() of ReadBuild that does not wait for the aggregator
BuildWaiterNoWait ==
  /\ bpc.wt = "wait"
  /\ \A t \in {"st", "fn", "ls", "dl"} : bpc[t] = "done"
  /\ bpc' = [bpc EXCEPT !.wt = "select"]
  /\ UNCHANGED <<otherVars, build, bctx, bloc, bret>>

\* wg.Wait() returns: the five goroutines counted in wg have returned
BuildWaiterWait ==
  /\ bpc.wt = "wait"
  /\ \A t \in {"st", "fn", "ls", "dl", "ag"} : bpc[t] = "done"
  /\ bpc' = [bpc EXCEPT !.wt = "select"]
  /\ UNCHANGED <<otherVars, build, bctx, bloc, bret>>

\* waiting goroutine: case <-ctx.Done(): return
BuildWaiterGiveUp ==
  /\ bpc.wt = "select"
  /\ BuildCtxDone
  /\ bpc' = [bpc EXCEPT !.wt = "done"]
  /\ UNCHANGED <<otherVars, build, bctx, bloc, bret>>

NextBuild ==
  \/ BuildExpire
  \/ StartedFetch
  \/ FinishedFetch
  \/ \E t \in {"st", "fn", "ls"} : TaskGiveUp(t)
  \/ BuildRecvStarted
  \/ BuildRecvFinished
  \/ \E t \in {"st", "fn", "ls"} : BuildRecvError(t)
  \/ \E k \in Artifacts : BuildRecvReaderError(k)
  \/ BuildRecvNil
  \/ BuildInterrupted
  \/ ListNext
  \/ ListSend
  \/ ListInterrupted
  \/ DownloaderClosed
  \/ DownloaderWait
  \/ \E k \in Artifacts : ReaderRead(k)
  \/ \E k \in Artifacts : ReaderEmit(k)
  \/ \E k \in Artifacts : ReaderPanic(k)
  \/ \E k \in Artifacts : ReaderGiveUp(k)
  \/ AggregatorClosed
  \/ BuildWaiterWait
  \/ BuildWaiterGiveUp

SpecBuild == InitBuild /\ [][NextBuild]_vars

\* ---------------------------------------------- what ReadBuild returns
\* the Column ReadBuild returned
ReturnedColumn == bret.col[1]

\* the rows of the artifacts at the indices of seq, appended in that order
RECURSIVE RowsOf(_)
RowsOf(seq) ==
  IF seq = <<>> THEN <<>>
  ELSE MergeRows(RowsOf(SubSeq(seq, 1, Len(seq) - 1)),
                 extractRows(build.Artifacts[seq[Len(seq)]].Body,
                             build.Artifacts[seq[Len(seq)]].Meta[1]))

\* C15: ReadBuild returns a Column for a build that has a finished.json
\* only when the lister, every artifact reader and the aggregator have
\* completed and the rows of every junit artifact are in the column; it
\* returns no Column when ctx was done before that.
C15_NoPartialColumn ==
  (bret.kind = "column" /\ build.Finished.exists) =>
    /\ ~bctx.early
    /\ bpc.ls = "done"
    /\ \A k \in Artifacts :
         bpc.ar[k] = IF k \in JunitArtifacts THEN "done" ELSE "none"
    /\ AllAggregated
    /\ Len(bloc.agg) = Cardinality(JunitArtifacts)
    /\ ReturnedColumn.Rows =
         ReadBuildColumn(build.Prefix, StartedOf(build), FinishedOf(build),
                         RowsOf(bloc.agg), now).Rows

\* the column of a finished build holding the rows of two junit artifacts
C15_Witness ==
  /\ bret.kind = "column"
  /\ build.Finished.exists
  /\ Cardinality(JunitArtifacts) = 2
  /\ {NameT9, NameT10} \subseteq DOMAIN ReturnedColumn.Rows

\* a build with a started.json of the last 24 hours and no finished.json
RunningRecent ==
  /\ build.Started.exists
  /\ build.Started.Timestamp >= now - Day
  /\ ~build.Finished.exists

\* a Column with Finished = 0 whose only row is Overall, RUNNING, icon R
IsRunningColumn(c) ==
  /\ c.Finished = 0
  /\ DOMAIN c.Rows = {OverallStr}
  /\ Len(c.Rows[OverallStr]) = 1
  /\ c.Rows[OverallStr][1].Result = Row_Result.RUNNING
  /\ c.Rows[OverallStr][1].Icon = <<"R">>

\* a junit artifact of the build reports a remaining size over 50 MB
HasTooLarge ==
  \E k \in JunitArtifacts : build.Artifacts[k].Remain > MaxRemain

C17_TooLargeFailsBuild ==
  (bret.kind # "none" /\ \E k \in Artifacts : bloc.arerr[k] = "too large") =>
    bret.kind = "error"

\* the Overall row of the returned Column
ReturnedOverall == ReturnedColumn.Rows[OverallStr][1]

FailsOutsideTests(c) ==
  /\ c.Rows[OverallStr][1].Result = Row_Result.FAIL
  /\ \A t \in DOMAIN c.Rows \ {OverallStr} :
       \A i \in 1..Len(c.Rows[t]) : c.Rows[t][i].Result # Row_Result.FAIL

\* the Overall row of c has icon F and the failed-outside message
IsAmended(c) ==
  /\ c.Rows[OverallStr][1].Icon = <<"F">>
  /\ c.Rows[OverallStr][1].Message = FailedOutsideMessage

\* C19 as stated: in every Column ReadBuild returns, if the Overall row is
\* FAIL and no other row is FAIL, the Overall row has icon F and message
\* "Build failed outside of test results".
C19_Original ==
  (bret.kind = "column" /\ FailsOutsideTests(ReturnedColumn)) =>
    IsAmended(ReturnedColumn)

\* C19: in every Column ReadBuild returns for a build that has a
\* finished.json, the Overall row has icon F and the failed-outside message
\* exactly if it is FAIL and no other row is FAIL; the Column of a build
\* without finished.json that timed out keeps icon T and its own message.
C19_FailedOutsideTests ==
  bret.kind = "column" =>
    IF build.Finished.exists
    THEN IsAmended(ReturnedColumn) <=> FailsOutsideTests(ReturnedColumn)
    ELSE ~IsAmended(ReturnedColumn)

\* a failed build whose only junit rows pass
C19_Witness ==
  /\ bret.kind = "column"
  /\ build.Finished.exists
  /\ ~build.Finished.Passed
  /\ NameT10 \in DOMAIN ReturnedColumn.Rows
  /\ IsAmended(ReturnedColumn)

\* ------------------------------------------ the goroutines of ReadBuild
\* every goroutine ReadBuild started has returned
AllTasksDone ==
  /\ \A t \in {"st", "fn", "ls", "dl", "ag", "wt"} : bpc[t] = "done"
  /\ \A k \in Artifacts : bpc.ar[k] \in {"none", "done"}

\* C30: after ReadBuild has returned because of a first error, every task
\* it started (the readers of started.json and finished.json, the lister,
\* the dispatcher, each artifact reader, the aggregator and the waiter)
\* eventually terminates and none stays blocked forever: in every state
\* after the return in which no goroutine can take a step and the process
\* has not panicked, all of them have returned.
C30_TasksEndAfterError ==
  (bpc # <<>> /\ bret.kind = "error" /\ ~Panicked /\ ~ENABLED NextBuild) =>
    AllTasksDone

\* C31: if the 30-second deadline expires (or the build's context is
\* cancelled) before both the started.json and the finished.json result
\* have been received, ReadBuild returns an error and never waits forever
\* on its result channels: in every state in which no goroutine can take a
\* step, the deadline has expired and a result is still missing, ReadBuild
\* has returned an error.
C31_ExpiryReturnsError ==
  (/\ bpc # <<>>
   /\ bctx.expired
   /\ (bloc.started = Nil \/ bloc.finished = Nil)
   /\ ~Panicked
   /\ ~ENABLED NextBuild) => bret.kind = "error"

\* ---------------------------------------------------------------- gcsPath
\* strings.Index(s, c) + 1 and strings.LastIndex(s, c) + 1 (0: no c in s)
IndexOf(s, c) ==
  IF \E i \in 1..Len(s) : s[i] = c
  THEN CHOOSE i \in 1..Len(s) : s[i] = c /\ \A j \in 1..(i - 1) : s[j] # c
  ELSE 0
LastIndexOf(s, c) ==
  IF \E i \in 1..Len(s) : s[i] = c
  THEN CHOOSE i \in 1..Len(s) : s[i] = c /\ \A j \in (i + 1)..Len(s) : s[j] # c
  ELSE 0

\* s[i:] of Go for the 1-based position i
From(s, i) == SubSeq(s, i, Len(s))

HasPrefix(s, p) == Len(s) >= Len(p) /\ SubSeq(s, 1, Len(p)) = p

\* the letters of the urls of the model
Letters == {"b", "f", "g", "h", "o", "q", "s", "u", "x", "G", "S"}

\* the upper-case letters of the model and their lower-case forms
LowerOf ==
  ("A" :> "a") @@ ("E" :> "e") @@ ("F" :> "f") @@ ("G" :> "g") @@
  ("I" :> "i") @@ ("L" :> "l") @@ ("O" :> "o") @@ ("R" :> "r") @@
  ("S" :> "s") @@ ("U" :> "u")

\* strings.ToLower
ToLower(s) ==
  [i \in 1..Len(s) |-> IF s[i] \in DOMAIN LowerOf THEN LowerOf[s[i]] ELSE s[i]]

\* getScheme of net/url from position i on: the scheme and the rest, or an
\* error when the url starts with ":"
RECURSIVE getSchemeFrom(_, _)
getSchemeFrom(u, i) ==
  IF i > Len(u) THEN [err |-> FALSE, scheme |-> EmptyStr, rest |-> u]
  ELSE IF u[i] \in Letters THEN getSchemeFrom(u, i + 1)
  ELSE IF isdigit(u[i]) \/ u[i] \in {"+", "-", "."}
       THEN (IF i = 1 THEN [err |-> FALSE, scheme |-> EmptyStr, rest |-> u]
             ELSE getSchemeFrom(u, i + 1))
  ELSE IF u[i] = ":"
       THEN (IF i = 1 THEN [err |-> TRUE, scheme |-> EmptyStr, rest |-> u]
             ELSE [err |-> FALSE, scheme |-> SubSeq(u, 1, i - 1),
                   rest |-> From(u, i + 1)])
  ELSE [err |-> FALSE, scheme |-> EmptyStr, rest |-> u]

\* parseAuthority of net/url: the user (Nil, or <<userinfo>>) and the host
\* with its port; an error when the port is not a number
parseAuthority(authority) ==
  LET at == LastIndexOf(authority, "@")
      host == IF at = 0 THEN authority ELSE From(authority, at + 1)
      colon == LastIndexOf(host, ":")
  IN [err |-> colon # 0 /\ \E i \in (colon + 1)..Len(host) : ~isdigit(host[i]),
      User |-> IF at = 0 THEN Nil ELSE <<SubSeq(authority, 1, at - 1)>>,
      Host |-> host]

\* what url.Parse fails with
ParseError ==
  [err |-> TRUE, Scheme |-> EmptyStr, Opaque |-> EmptyStr, User |-> Nil,
   Host |-> EmptyStr, Path |-> EmptyStr, RawQuery |-> EmptyStr,
   Fragment |-> EmptyStr]

\* url.Parse(v) of net/url, on urls without escapes and brackets
Parse(v) ==
  LET hash == IndexOf(v, "#")
      u == IF hash = 0 THEN v ELSE SubSeq(v, 1, hash - 1)
      frag == IF hash = 0 THEN EmptyStr ELSE From(v, hash + 1)
      sch == getSchemeFrom(u, 1)
      q == IndexOf(sch.rest, "?")
      rest == IF q = 0 THEN sch.rest ELSE SubSeq(sch.rest, 1, q - 1)
      rawq == IF q = 0 THEN EmptyStr ELSE From(sch.rest, q + 1)
      url == [err |-> FALSE, Scheme |-> ToLower(sch.scheme), Opaque |-> EmptyStr,
              User |-> Nil, Host |-> EmptyStr, Path |-> EmptyStr,
              RawQuery |-> rawq, Fragment |-> frag]
      slash == IndexOf(rest, "/")
      segment == IF slash = 0 THEN rest ELSE SubSeq(rest, 1, slash - 1)
  IN IF sch.err THEN ParseError
     ELSE IF ~HasPrefix(rest, <<"/">>) /\ sch.scheme # EmptyStr
          THEN [url EXCEPT !.Opaque = rest]
     ELSE IF ~HasPrefix(rest, <<"/">>) /\ IndexOf(segment, ":") # 0
          THEN ParseError
     ELSE IF /\ HasPrefix(rest, <<"/", "/">>)
             /\ (sch.scheme # EmptyStr \/ ~HasPrefix(rest, <<"/", "/", "/">>))
          THEN LET a == From(rest, 3)
                   cut == IndexOf(a, "/")
                   pa == parseAuthority(IF cut = 0 THEN a ELSE SubSeq(a, 1, cut - 1))
               IN IF pa.err THEN ParseError
                  ELSE [url EXCEPT !.User = pa.User, !.Host = pa.Host,
                                   !.Path = IF cut = 0 THEN EmptyStr ELSE From(a, cut)]
     ELSE [url EXCEPT !.Path = rest]

\* gcsPath.Set(v): the error it returns ("nil": none)
Set(v) ==
  LET u == Parse(v)
  IN IF u.err THEN "invalid gs:// url"
     ELSE IF u.Scheme # <<"g", "s">> THEN "must use a gs:// url"
     ELSE IF IndexOf(u.Host, ":") # 0 THEN "gs://bucket may not contain a port"
     ELSE IF u.Opaque # EmptyStr THEN "url must start with gs://"
     ELSE IF u.User # Nil THEN "gs://bucket may not contain an user@ prefix"
     ELSE IF u.RawQuery # EmptyStr THEN "gs:// url may not contain a ?query suffix"
     ELSE IF u.Fragment # EmptyStr
          THEN "gs:// url may not contain a #fragment suffix"
     ELSE "nil"

\* --------------------------------------------------------- gerrit adapter
\* string(v1.FailureState) and string(v1.ErrorState)
failure == <<"f", "a", "i", "l", "u", "r", "e">>
errored == <<"e", "r", "r", "o", "r">>

\* the set failed after the loops over the reports and their jobs
FailedJobs(reports) ==
  UNION {{reports[k].Jobs[i].Name :
            i \in {j \in 1..Len(reports[k].Jobs) :
                     ToLower(reports[k].Jobs[j].State) \in {failure, errored}}} :
           k \in DOMAIN reports}

\* presubmitContexts comparing the job state as it is spelled
presubmitContextsCaseSensitive(presubmits, reports) ==
  LET allContexts == {presubmits[i].Name : i \in 1..Len(presubmits)}
      failed ==
        UNION {{reports[k].Jobs[i].Name :
                  i \in {j \in 1..Len(reports[k].Jobs) :
                           reports[k].Jobs[j].State \in {failure, errored}}} :
                 k \in DOMAIN reports}
  IN [failed |-> allContexts \cap failed, all |-> allContexts]

\* presubmitContexts(presubmits, reports, logger): failedContexts and
\* allContexts
presubmitContexts(presubmits, reports) ==
  LET allContexts == {presubmits[i].Name : i \in 1..Len(presubmits)}
  IN [failed |-> allContexts \cap FailedJobs(reports), all |-> allContexts]

\* change.Revisions[change.CurrentRevision].Number: the zero RevisionInfo
\* when the map has no such key
WantNumber(change) ==
  IF change.CurrentRevision \in DOMAIN change.Revisions
  THEN change.Revisions[change.CurrentRevision].Number
  ELSE 0

\* currentMessages keeping the messages dated at since as well
currentMessagesFromSince(change, since) ==
  LET want == WantNumber(change)
      messages[n \in 0..Len(change.Messages)] ==
        IF n = 0 THEN <<>>
        ELSE LET have == change.Messages[n]
             IN IF have.RevisionNumber # want THEN messages[n - 1]
                ELSE IF have.Date < since THEN messages[n - 1]
                ELSE Append(messages[n - 1], have.Message)
  IN messages[Len(change.Messages)]

\* currentMessages(change, since); messages[n] is the slice after the
\* first n messages of the change, and times are in seconds
currentMessages(change, since) ==
  LET want == WantNumber(change)
      messages[n \in 0..Len(change.Messages)] ==
        IF n = 0 THEN <<>>
        ELSE LET have == change.Messages[n]
             IN IF have.RevisionNumber # want THEN messages[n - 1]
                ELSE IF ~(have.Date > since) THEN messages[n - 1]
                ELSE Append(messages[n - 1], have.Message)
  IN messages[Len(change.Messages)]

\* failingJobs without the comparison of the message dates
failingJobsLastWins(account, messages) ==
  LET after[n \in 0..Len(messages)] ==
        IF n = 0 THEN [failures |-> {}, times |-> <<>>]
        ELSE LET message == messages[n]
                 jobs[j \in 0..(IF message.Report = Nil THEN 0
                                ELSE Len(message.Report[1]))] ==
                   IF j = 0 THEN after[n - 1]
                   ELSE LET st == jobs[j - 1]
                            job == message.Report[1][j]
                        IN IF FALSE
                           THEN st
                           ELSE [times |-> (job.Name :> message.Date) @@ st.times,
                                 failures |->
                                   IF job.State \in {failure, errored}
                                   THEN st.failures \cup {job.Name}
                                   ELSE st.failures \ {job.Name}]
             IN IF message.Author # account THEN after[n - 1]
                ELSE IF message.Report = Nil THEN after[n - 1]
                ELSE jobs[Len(message.Report[1])]
  IN after[Len(messages)].failures

\* failingJobs(account, messages...): after[n] is failures and times after
\* the first n messages, jobs[j] after the first j jobs of a report; Report
\* is reporter.ParseReport(message.Message), and times are in seconds
failingJobs(account, messages) ==
  LET after[n \in 0..Len(messages)] ==
        IF n = 0 THEN [failures |-> {}, times |-> <<>>]
        ELSE LET message == messages[n]
                 jobs[j \in 0..(IF message.Report = Nil THEN 0
                                ELSE Len(message.Report[1]))] ==
                   IF j = 0 THEN after[n - 1]
                   ELSE LET st == jobs[j - 1]
                            job == message.Report[1][j]
                        IN IF /\ job.Name \in DOMAIN st.times
                              /\ message.Date < st.times[job.Name]
                           THEN st
                           ELSE [times |-> (job.Name :> message.Date) @@ st.times,
                                 failures |->
                                   IF job.State \in {failure, errored}
                                   THEN st.failures \cup {job.Name}
                                   ELSE st.failures \ {job.Name}]
             IN IF message.Author # account THEN after[n - 1]
                ELSE IF message.Report = Nil THEN after[n - 1]
                ELSE jobs[Len(message.Report[1])]
  IN after[Len(messages)].failures

\* ProcessChange(instance, change) up to the refs of the change: the error
\* it returns ("nil": none). makeCloneURI parses the instance;
\* GetBranchRevision of the gerrit client knows the branch master only;
\* createRefs looks the current revision up. What follows the refs (the
\* jobs it creates) is taken to succeed.
ProcessChange(instance, change) ==
  LET u == Parse(instance)
      cloneErr == IF u.err THEN "instance is not a url"
                  ELSE IF u.Host = EmptyStr THEN "instance does not set host"
                  ELSE IF u.Path # EmptyStr THEN "instance cannot set path"
                  ELSE "nil"
  IN IF cloneErr # "nil" THEN "failed to create clone uri"
     ELSE IF change.Branch # "master" THEN "failed to get SHA from base branch"
     ELSE IF change.CurrentRevision \notin change.Revisions
          THEN "failed to get refs"
     ELSE "nil"

\* Sync with the time of a project set to the Updated time of each change
SyncLastWins(syncTime, queried, order, updated) ==
  LET flat[n \in 0..Len(order)] ==
        IF n = 0 THEN <<>>
        ELSE flat[n - 1] \o
             [k \in 1..Len(queried[order[n]]) |-> <<order[n], k>>]
      work == flat[Len(order)]
      errs == [i \in DOMAIN queried |->
                 [k \in 1..Len(queried[i]) |-> ProcessChange(i, queried[i][k])]]
      after[n \in 0..Len(work)] ==
        IF n = 0 THEN [latest |-> syncTime, processed |-> <<>>, logged |-> <<>>]
        ELSE LET st == after[n - 1]
                 instance == work[n][1]
                 change == queried[instance][work[n][2]]
                 err == errs[instance][work[n][2]]
             IN [latest |-> [st.latest EXCEPT
                               ![instance] = (change.Project :> change.Updated) @@ @],
                 processed |-> Append(st.processed, work[n]),
                 logged |-> IF err # "nil" THEN Append(st.logged, work[n])
                            ELSE st.logged]
      end == after[Len(work)]
  IN [latest |-> end.latest, processed |-> end.processed, logged |-> end.logged,
      ret |-> updated]

\* Sync going on to the next change when ProcessChange fails
SyncSkipsFailed(syncTime, queried, order, updated) ==
  LET flat[n \in 0..Len(order)] ==
        IF n = 0 THEN <<>>
        ELSE flat[n - 1] \o
             [k \in 1..Len(queried[order[n]]) |-> <<order[n], k>>]
      work == flat[Len(order)]
      errs == [i \in DOMAIN queried |->
                 [k \in 1..Len(queried[i]) |-> ProcessChange(i, queried[i][k])]]
      after[n \in 0..Len(work)] ==
        IF n = 0 THEN [latest |-> syncTime, processed |-> <<>>, logged |-> <<>>]
        ELSE LET st == after[n - 1]
                 instance == work[n][1]
                 change == queried[instance][work[n][2]]
                 err == errs[instance][work[n][2]]
                 ok == change.Project \in DOMAIN st.latest[instance]
             IN [latest |->
                   IF /\ err = "nil"
                      /\ (~ok \/ st.latest[instance][change.Project] < change.Updated)
                   THEN [st.latest EXCEPT
                           ![instance] = (change.Project :> change.Updated) @@ @]
                   ELSE st.latest,
                 processed |-> Append(st.processed, work[n]),
                 logged |-> IF err # "nil" THEN Append(st.logged, work[n])
                            ELSE st.logged]
      end == after[Len(work)]
  IN [latest |-> end.latest, processed |-> end.processed, logged |-> end.logged,
      ret |-> updated]

\* c.Sync(): syncTime is c.tracker.Current(), queried the changes that
\* c.gc.QueryChanges returns for each instance, order the order in which
\* range visits the instances, and updated what c.tracker.Update
\* returns ("nil": no error). errs is what c.ProcessChange returns for
\* each change. work is the changes in the order of the two loops, after[n]
\* the state behind the first n of them: latest, the changes handed to
\* ProcessChange and those whose error was logged. The result holds the
\* state passed to c.tracker.Update and the error Sync returns. Times are
\* in seconds.
Sync(syncTime, queried, order, updated) ==
  LET flat[n \in 0..Len(order)] ==
        IF n = 0 THEN <<>>
        ELSE flat[n - 1] \o
             [k \in 1..Len(queried[order[n]]) |-> <<order[n], k>>]
      work == flat[Len(order)]
      errs == [i \in DOMAIN queried |->
                 [k \in 1..Len(queried[i]) |-> ProcessChange(i, queried[i][k])]]
      after[n \in 0..Len(work)] ==
        IF n = 0 THEN [latest |-> syncTime, processed |-> <<>>, logged |-> <<>>]
        ELSE LET st == after[n - 1]
                 instance == work[n][1]
                 change == queried[instance][work[n][2]]
                 err == errs[instance][work[n][2]]
                 ok == change.Project \in DOMAIN st.latest[instance]
             IN [latest |->
                   IF ~ok \/ st.latest[instance][change.Project] < change.Updated
                   THEN [st.latest EXCEPT
                           ![instance] = (change.Project :> change.Updated) @@ @]
                   ELSE st.latest,
                 processed |-> Append(st.processed, work[n]),
                 logged |-> IF err # "nil" THEN Append(st.logged, work[n])
                            ELSE st.logged]
      end == after[Len(work)]
  IN [latest |-> end.latest, processed |-> end.processed, logged |-> end.logged,
      ret |-> updated]

\* ------------------------------------------------- calls of pure functions
\* SpecCalls calls the functions of the updater that keep no state, each
\* on an argument drawn from a bounded set, and records the call; a run is
\* one call.

\* how many bytes beyond MessageMax the longest junit text has
MaxOver == 2
\* the most test cases of a junit suite
MaxCases == 2
\* the most messages of a gerrit change
MaxMsgs == 2
\* the most jobs of a gerrit report
MaxJobs == 1
\* the most changes that one QueryChanges returns
MaxChanges == 2

\* a <failure>, <skipped> or <system-out> element: absent, or its text, a
\* text of n bytes for n empty, one byte, and around MessageMax
TextPtrs ==
  LET Text(n) == [i \in 1..n |-> Chars[((i - 1) % Len(Chars)) + 1]]
      TextLens == {0, 1} \cup ((MessageMax - 1)..(MessageMax + MaxOver))
  IN {Nil} \cup {<<Text(n)>> : n \in TextLens}

\* the <testcase> elements
JunitResults ==
  [Name : {NameA}, Time : {0, 2}, Failure : TextPtrs, Skipped : TextPtrs,
   Output : TextPtrs]

\* the test cases with texts of at most one byte and no time
ShortResults ==
  {jr \in [Name : {NameA, NameT9}, Time : {0}, Failure : TextPtrs,
            Skipped : TextPtrs, Output : TextPtrs] :
     \A p \in {jr.Failure, jr.Skipped, jr.Output} : p # Nil => Len(p[1]) <= 1}

\* the sequences over S of length at most n
RECURSIVE SeqsUpTo(_, _)
SeqsUpTo(S, n) ==
  IF n = 0 THEN {<<>>}
  ELSE LET shorter == SeqsUpTo(S, n - 1)
       IN shorter \cup {Append(q, x) : q \in shorter, x \in S}

\* the files: one <testsuite>, named or not, of up to MaxCases test cases
JunitFiles ==
  {<<[Name |-> nm, Results |-> rs]>> :
     nm \in {EmptyStr, <<"s">>}, rs \in SeqsUpTo(ShortResults, MaxCases)}

InitCalls ==
  /\ BuildIdle
  /\ now \in Clocks
  /\ store = <<>>
  /\ builds = <<>>
  /\ max = 0
  /\ dur = 0
  /\ concurrency = 0
  /\ nc = DefaultNameConfig
  /\ cols = <<>>
  /\ parentDone = FALSE
  /\ cancelled = FALSE
  /\ dpc = "idle"
  /\ di = 0
  /\ wpc = <<>>
  /\ wi = <<>>
  /\ reads = <<>>
  /\ qpc = "idle"
  /\ mpc = "calls"
  /\ fi = 0
  /\ result = "none"
  /\ grid = [Columns |-> <<>>, Rows |-> <<>>]
  /\ heap = <<>>
  /\ rows = <<>>
  /\ fed = <<>>

\* everything but call
stateVars == <<driverVars, nc, gridVars, buildVars>>

\* jr.Message()
CallMessage ==
  /\ mpc = "calls"
  /\ call = <<>>
  /\ \E jr \in JunitResults :
       call' = [fn |-> "Message", arg |-> jr, ret |-> Message(jr)]
  /\ UNCHANGED stateVars

\* extractRows(buf, meta)
CallExtractRows ==
  /\ mpc = "calls"
  /\ call = <<>>
  /\ \E suites \in JunitFiles :
       call' = [fn |-> "extractRows", arg |-> suites,
                ret |-> extractRows(suites, JunitMeta)]
  /\ UNCHANGED stateVars

\* the header lists Headers(group) may return
HeaderLists == {<<>>, GroupHeaders, <<"node", "Commit">>}

\* the metadata maps of finished.json: the values each key may have (Nil:
\* key absent), and the map with the keys whose value is present
Metadatas ==
  LET Commit12 == <<"0", "1", "2", "3", "4", "5", "6", "7", "8", "9", "a", "b">>
      RepoCommits == {Nil, <<Commit12>>, <<<<"a", "b", "c">>>>}
      JobVersions ==
        {Nil, <<<<"v", "1">>>>, <<<<"v", "1", "+", "a", "b">>>>,
         <<<<"v", "1", "+", "a", "b", "+", "c", "d">>>>,
         <<<<"v", "1", "+">> \o Commit12>>}
      Nodes == {Nil, <<<<"n", "1">>>>}
      MetadataOf(rc, jv, nd) ==
        LET f == ("repo-commit" :> rc) @@ ("job-version" :> jv) @@ ("node" :> nd)
        IN [k \in {j \in DOMAIN f : f[j] # Nil} |-> f[k][1]]
  IN {MetadataOf(rc, jv, nd) :
        rc \in RepoCommits, jv \in JobVersions, nd \in Nodes}

\* the Columns ReadBuild may return for build 20: unfinished (Finished = 0)
\* or finished, with one passed test
HeaderColumns(clock) ==
  {[Id |-> Itoa(20), Started |-> clock - 600, Finished |-> fin, Passed |-> TRUE,
    Metadata |-> md,
    Rows |-> RowMapOf(<<JunitRow(NameA, Row_Result.PASS, (elapsedKey :> 2),
                                 EmptyStr, EmptyStr)>>, <<>>)] :
     fin \in {0, clock - 540}, md \in Metadatas}

\* AppendColumn(h, nc, grid, rows, column) on the empty grid
CallAppendColumn ==
  /\ mpc = "calls"
  /\ call = <<>>
  /\ \E h \in HeaderLists, column \in HeaderColumns(now) :
       \E torder \in KeyOrders(DOMAIN column.Rows) :
         \E korder \in KeyOrders({elapsedKey}) :
           LET res == AppendColumn(h, nc, grid, heap, rows, column, torder, korder)
           IN /\ grid' = res.grid
              /\ heap' = res.heap
              /\ rows' = res.rows
              /\ fed' = Append(fed, res.assigned)
              /\ call' = [fn |-> "AppendColumn",
                          arg |-> [headers |-> h, build |-> column], ret |-> <<>>]
  /\ UNCHANGED <<driverVars, nc, buildVars>>

\* the values of the --config flag: a scheme, an authority, a path, a
\* query and a fragment, each of them possibly empty
UrlStrings ==
  {sc \o au \o pa \o qu \o fr :
     sc \in {EmptyStr, <<"g", "s", ":">>, <<"G", "S", ":">>, <<"h", "s", ":">>,
             <<":">>},
     au \in {EmptyStr, <<"/", "/">>, <<"/", "/", "b">>,
             <<"/", "/", "b", ":", "1">>, <<"/", "/", "b", ":">>,
             <<"/", "/", "b", ":", "x">>, <<"/", "/", "u", "@", "b">>,
             <<"/", "/", "@", "b">>},
     pa \in {EmptyStr, <<"/", "o">>, <<"o">>},
     qu \in {EmptyStr, <<"?">>, <<"?", "q">>},
     fr \in {EmptyStr, <<"#">>, <<"#", "f">>}}

\* g.Set(v), as the flag package calls it
CallSet ==
  /\ mpc = "calls"
  /\ call = <<>>
  /\ \E v \in UrlStrings :
       call' = [fn |-> "Set", arg |-> v, ret |-> Set(v)]
  /\ UNCHANGED stateVars

\* the time since of currentMessages, in seconds
Since == 1000

\* the messages of a change: on revision 0, 1 or 2, dated a second before
\* since, at since or a second after it
ChangeMessages ==
  [RevisionNumber : 0..2, Date : {Since - 1, Since, Since + 1},
   Message : {"m1", "m2"}]

\* the changes: revision r1, or r1 and r2, with r1 or r2 as the current
\* one, and up to MaxMsgs messages
Changes ==
  {[Revisions |-> revs, CurrentRevision |-> cur, Messages |-> msgs] :
     revs \in {("r1" :> [Number |-> 1]),
               ("r1" :> [Number |-> 1]) @@ ("r2" :> [Number |-> 2])},
     cur \in {"r1", "r2"},
     msgs \in SeqsUpTo(ChangeMessages, MaxMsgs)}

\* currentMessages(change, since)
CallCurrentMessages ==
  /\ mpc = "calls"
  /\ call = <<>>
  /\ \E change \in Changes :
       call' = [fn |-> "currentMessages", arg |-> [change |-> change, since |-> Since],
                ret |-> currentMessages(change, Since)]
  /\ UNCHANGED stateVars

\* the reports: up to MaxJobs jobs each, under the labels ra and rb, in
\* the job states the reports hold
JobReports ==
  LET JobStates ==
        {failure, <<"F", "a", "i", "l", "u", "r", "e">>,
         <<"E", "R", "R", "O", "R">>, <<"s", "u", "c", "c", "e", "s", "s">>}
      jobs == SeqsUpTo([Name : {"j1", "j2", "jx"}, State : JobStates], MaxJobs)
  IN UNION {[labels -> [Jobs : jobs]] : labels \in SUBSET {"ra", "rb"}}

\* the configured presubmits
PresubmitLists ==
  {<<>>, <<[Name |-> "j1"]>>, <<[Name |-> "j2"]>>,
   <<[Name |-> "j1"], [Name |-> "j2"]>>}

\* presubmitContexts(presubmits, reports, logger)
CallPresubmitContexts ==
  /\ mpc = "calls"
  /\ call = <<>>
  /\ \E presubmits \in PresubmitLists, reports \in JobReports :
       call' = [fn |-> "presubmitContexts",
                arg |-> [presubmits |-> presubmits, reports |-> reports],
                ret |-> presubmitContexts(presubmits, reports)]
  /\ UNCHANGED stateVars

\* failingJobs(account, messages...) for the account 7: up to MaxMsgs
\* messages, each of the account and dated 1 or 2, with a text that is no
\* report or a report of up to MaxJobs jobs, or of another account
CallFailingJobs ==
  /\ mpc = "calls"
  /\ call = <<>>
  /\ LET jobs == [Name : {"j1"}, State : {failure, <<"o", "k">>}] \cup
                 [Name : {"j2"}, State : {errored, <<"o", "k">>}]
         reports == {Nil} \cup {<<r>> : r \in SeqsUpTo(jobs, MaxJobs) \ {<<>>}}
         own == [Author : {7}, Date : {1, 2}, Report : reports]
         other == {[Author |-> 8, Date |-> 2,
                    Report |-> <<<<[Name |-> "j1", State |-> failure]>>>>]}
     IN \E messages \in SeqsUpTo(own \cup other, MaxMsgs) :
          call' = [fn |-> "failingJobs", arg |-> [account |-> 7, messages |-> messages],
                   ret |-> failingJobs(7, messages)]
  /\ UNCHANGED stateVars

\* c.Sync(), once and once again: the tracker starts with a time for
\* every project but possibly p of the first instance, and keeps the state
\* of an Update that succeeds. QueryChanges returns up to MaxChanges
\* changes in all: on the instance with a host, changes of p and q updated
\* at 1 or 3, and changes of p updated at 3 on a branch the client does not
\* know or without their current revision; on the instance without a
\* host, a change of p updated at 3.
CallSync ==
  /\ mpc = "calls"
  /\ IF call = <<>> THEN TRUE ELSE call.fn = "Sync" /\ ~call.again
  /\ LET host == <<"h", ":", "/", "/", "g">>
         bare == <<"g">>
         change(p, t, b, revs) ==
           [Project |-> p, Updated |-> t, Branch |-> b,
            CurrentRevision |-> "r1", Revisions |-> revs]
         sound == {change(p, t, "master", {"r1"}) : p \in {"p", "q"}, t \in {1, 3}}
         faulty == {change("p", 3, "gone", {"r1"}), change("p", 3, "master", {})}
         trackers == {(host :> hp) @@ (bare :> ("p" :> 2)) :
                        hp \in {("q" :> 2), ("p" :> 2) @@ ("q" :> 2)}}
     IN \E syncTime \in (IF call = <<>> THEN trackers ELSE {call.tracker}),
           onHost \in SeqsUpTo(sound \cup faulty, MaxChanges),
           onBare \in SeqsUpTo({change("p", 3, "master", {"r1"})}, MaxChanges),
           order \in {<<host, bare>>, <<bare, host>>},
           updated \in {"nil", "update failed"} :
          /\ Len(onHost) + Len(onBare) <= MaxChanges
          /\ \E queried \in {(host :> onHost) @@ (bare :> onBare)} :
               \E sync \in {Sync(syncTime, queried, order, updated)} :
                 call' = [fn |-> "Sync",
                          arg |-> [syncTime |-> syncTime, queried |-> queried],
                          ret |-> sync,
                          update |-> updated,
                          tracker |-> IF updated = "nil" THEN sync.latest
                                      ELSE syncTime,
                          again |-> call # <<>>]
  /\ UNCHANGED stateVars

NextCalls ==
  \/ CallMessage
  \/ CallExtractRows
  \/ CallAppendColumn
  \/ CallSet
  \/ CallCurrentMessages
  \/ CallPresubmitContexts
  \/ CallFailingJobs

SpecCalls == InitCalls /\ [][NextCalls]_vars

\* SpecSync calls Sync of the gerrit adapter, and calls it again
SpecSync == InitCalls /\ [][CallSync]_vars

\* ------------------------------------------------------- junit test cases
\* the last n bytes of msg (all of it when it is shorter)
LastBytes(msg, n) ==
  IF Len(msg) <= n THEN msg ELSE SubSeq(msg, Len(msg) - n + 1, Len(msg))

\* C22: JunitResult.Message returns a message of at most 140 characters
\* unchanged, and for a longer message its first 70 characters, then
\* "...", then its last 69 characters.
C22_MessageHeadAndTail ==
  (call # <<>> /\ call.fn = "Message") =>
    LET msg == MessageText(call.arg)
    IN call.ret = IF Len(msg) <= 140 THEN msg
                  ELSE SubSeq(msg, 1, 70) \o <<".", ".", ".">> \o LastBytes(msg, 69)

\* the test cases of the file that extractRows was called on
CasesOf(suites) == suites[1].Results

\* <skipped> is present with an empty body
SkippedEmpty(jr) == jr.Skipped # Nil /\ jr.Skipped[1] = EmptyStr

\* the test cases of results that are kept and named t, in file order
KeptCases(suites, t) ==
  LET Kept(jr) == ~SkippedEmpty(jr) /\ RowName(jr, suites[1].Name) = t
  IN SelectSeq(CasesOf(suites), Kept)

\* the names of the test cases that are kept
KeptNames(suites) ==
  {RowName(CasesOf(suites)[i], suites[1].Name) :
     i \in {j \in 1..Len(CasesOf(suites)) : ~SkippedEmpty(CasesOf(suites)[j])}}

\* C23: extractRows maps each testcase as follows: no row when <skipped>
\* is present with an empty body; otherwise one row, with result FAIL when
\* <failure> is present, else PASS_WITH_SKIPS when <skipped> is present,
\* else PASS; the row's icon is F (for FAIL) or S (for PASS_WITH_SKIPS)
\* exactly when its message is non-empty, and empty in every other case.
C23_TestcaseToRow ==
  (call # <<>> /\ call.fn = "extractRows") =>
    /\ DOMAIN call.ret = KeptNames(call.arg)
    /\ \A t \in DOMAIN call.ret :
         LET cases == KeptCases(call.arg, t)
         IN /\ Len(call.ret[t]) = Len(cases)
            /\ \A i \in 1..Len(cases) :
                 LET r == call.ret[t][i]
                 IN /\ r.Result = IF cases[i].Failure # Nil THEN Row_Result.FAIL
                                   ELSE IF cases[i].Skipped # Nil
                                        THEN Row_Result.PASS_WITH_SKIPS
                                   ELSE Row_Result.PASS
                    /\ r.Icon = IF r.Message = EmptyStr THEN EmptyStr
                                ELSE IF r.Result = Row_Result.FAIL THEN <<"F">>
                                ELSE IF r.Result = Row_Result.PASS_WITH_SKIPS
                                     THEN <<"S">>
                                ELSE EmptyStr

\* a file of two test cases: the first has <failure> and an empty
\* <skipped> and gets no row; the second has an empty <failure> and a
\* <system-out>, and its row is FAIL with icon F
C23_Witness ==
  /\ call # <<>>
  /\ call.fn = "extractRows"
  /\ Len(CasesOf(call.arg)) = 2
  /\ SkippedEmpty(CasesOf(call.arg)[1])
  /\ CasesOf(call.arg)[1].Failure # Nil
  /\ CasesOf(call.arg)[2].Failure = <<EmptyStr>>
  /\ CasesOf(call.arg)[2].Skipped = Nil
  /\ \E t \in DOMAIN call.ret :
       /\ Len(call.ret[t]) = 1
       /\ call.ret[t][1].Result = Row_Result.FAIL
       /\ call.ret[t][1].Icon = <<"F">>

\* ------------------------------------------------------ the column headers
\* the Extra entries of the column the call appended
AppendedExtra == grid.Columns[Len(grid.Columns)].Extra

\* C24: every column appended by AppendColumn has exactly one extra entry
\* per configured header, in header order (the entry at the position of a
\* header other than Commit is that header's metadata value when the
\* build has finished and has one), and all the entries are the empty
\* string when the build is unfinished (Finished = 0).
C24_OneExtraPerHeader ==
  (call # <<>> /\ call.fn = "AppendColumn") =>
    LET h == call.arg.headers
        b == call.arg.build
    IN /\ Len(AppendedExtra) = Len(h)
       /\ b.Finished = 0 => \A i \in 1..Len(h) : AppendedExtra[i] = EmptyStr
       /\ b.Finished # 0 =>
            \A i \in 1..Len(h) :
              (h[i] # "Commit" /\ h[i] \in DOMAIN b.Metadata) =>
                AppendedExtra[i] = b.Metadata[h[i]]

\* an unfinished build that has metadata for both headers gets two empty
\* entries
C24_Witness ==
  /\ call # <<>>
  /\ call.fn = "AppendColumn"
  /\ call.arg.headers = <<"node", "Commit">>
  /\ call.arg.build.Finished = 0
  /\ {"node", "repo-commit"} \subseteq DOMAIN call.arg.build.Metadata
  /\ AppendedExtra = <<EmptyStr, EmptyStr>>

\* the first n bytes of v (all of v when it is shorter)
FirstBytes(v, n) == IF Len(v) <= n THEN v ELSE SubSeq(v, 1, n)

\* the part of av after its last "+" (all of av when it has none)
RECURSIVE AfterLastPlus(_)
AfterLastPlus(av) ==
  IF \E i \in 1..Len(av) : av[i] = "+"
  THEN AfterLastPlus(SubSeq(av, SkipWhile(av, 1, Range(av) \ {"+"}) + 1, Len(av)))
  ELSE av

\* C25: for a finished build, AppendColumn records for each header the
\* metadata value under that header; the header Commit is looked up as
\* repo-commit truncated to 9 characters and, failing that, as the part of
\* job-version after its last "+" (truncated or not); whenever no value is
\* found, including for Commit when both keys are absent, it records
\* "missing".
C25_HeaderLookup ==
  (call # <<>> /\ call.fn = "AppendColumn" /\ call.arg.build.Finished # 0) =>
    LET h == call.arg.headers
        md == call.arg.build.Metadata
    IN \A i \in 1..Len(h) :
         IF h[i] # "Commit"
         THEN AppendedExtra[i] = IF h[i] \in DOMAIN md THEN md[h[i]] ELSE MissingStr
         ELSE IF "repo-commit" \in DOMAIN md
              THEN AppendedExtra[i] = FirstBytes(md["repo-commit"], 9)
         ELSE IF "job-version" \in DOMAIN md
              THEN AppendedExtra[i] \in
                     {AfterLastPlus(md["job-version"]),
                      FirstBytes(AfterLastPlus(md["job-version"]), 9)}
         ELSE AppendedExtra[i] = MissingStr

\* ---------------------------------------------------------- the config url
\* C26: gcsPath.Set accepts a string only if its scheme is gs, its bucket
\* is non-empty and contains no port, and it has no opaque part, user,
\* query or fragment; every other string is rejected with an error.
C26_SetAcceptsOnlyGsUrls ==
  (call # <<>> /\ call.fn = "Set" /\ call.ret = "nil") =>
    LET u == Parse(call.arg)
    IN /\ ~u.err
       /\ u.Scheme = <<"g", "s">>
       /\ u.Host # EmptyStr
       /\ IndexOf(u.Host, ":") = 0
       /\ u.Opaque = EmptyStr
       /\ u.User = Nil
       /\ u.RawQuery = EmptyStr
       /\ u.Fragment = EmptyStr

\* ------------------------------------------------------- the gerrit adapter
\* C27: currentMessages returns exactly the messages of the change whose
\* revision number equals the number of the current revision and whose
\* date is strictly after the given time, in the order they appear in the
\* change; a message dated exactly at the given time is excluded.
C27_MessagesOfCurrentRevision ==
  (/\ call # <<>>
   /\ call.fn = "currentMessages"
   /\ call.arg.change.CurrentRevision \in DOMAIN call.arg.change.Revisions) =>
    LET change == call.arg.change
        number == change.Revisions[change.CurrentRevision].Number
        Wanted(m) == m.RevisionNumber = number /\ m.Date > call.arg.since
        wanted == SelectSeq(change.Messages, Wanted)
    IN call.ret = [i \in 1..Len(wanted) |-> wanted[i].Message]

\* the change is at revision r2; its first message is on r2 and dated at
\* since, its second is on r2 and dated later: only the second is returned
C27_Witness ==
  /\ call # <<>>
  /\ call.fn = "currentMessages"
  /\ call.arg.change.CurrentRevision = "r2"
  /\ "r2" \in DOMAIN call.arg.change.Revisions
  /\ Len(call.arg.change.Messages) = 2
  /\ call.arg.change.Messages[1] =
       [RevisionNumber |-> 2, Date |-> call.arg.since, Message |-> "m1"]
  /\ call.arg.change.Messages[2] =
       [RevisionNumber |-> 2, Date |-> call.arg.since + 1, Message |-> "m2"]
  /\ call.ret = <<"m2">>

\* the spellings of the job states that count as failed
FailedSpellings ==
  {<<"f", "a", "i", "l", "u", "r", "e">>, <<"F", "a", "i", "l", "u", "r", "e">>,
   <<"E", "R", "R", "O", "R">>}

ReportEntries(account, messages) ==
  {e \in (DOMAIN messages) \X (1..MaxJobs) :
     /\ messages[e[1]].Author = account
     /\ messages[e[1]].Report # Nil
     /\ e[2] <= Len(messages[e[1]].Report[1])}

\* the most recent reports of the job named nm, by message date
LatestReports(account, messages, nm) ==
  LET mine == {e \in ReportEntries(account, messages) :
                 messages[e[1]].Report[1][e[2]].Name = nm}
  IN {e \in mine : \A e2 \in mine : messages[e2[1]].Date <= messages[e[1]].Date}

\* the report says failure or error
SaysFailed(messages, e) ==
  messages[e[1]].Report[1][e[2]].State \in {failure, errored}

\* the report that was passed last
PassedLast(E) ==
  CHOOSE e \in E : \A e2 \in E : e2[1] < e[1] \/ (e2[1] = e[1] /\ e2[2] <= e[2])

\* the messages in every order
Reordered(messages) ==
  {[i \in DOMAIN messages |-> messages[p[i]]] :
     p \in {q \in [DOMAIN messages -> DOMAIN messages] :
              \A a, b \in DOMAIN messages : a # b => q[a] # q[b]}}

\* C38, as claimed: failingJobs returns exactly the job names whose most
\* recent report, by message date, among the messages of the account that
\* parse as reports, has state failure or error, and the result does not
\* depend on the order in which the messages are passed.
C38_Original ==
  (call # <<>> /\ call.fn = "failingJobs") =>
    LET account == call.arg.account
        messages == call.arg.messages
    IN /\ call.ret = {nm \in {"j1", "j2"} :
                         \E e \in LatestReports(account, messages, nm) :
                           SaysFailed(messages, e)}
       /\ \A other \in Reordered(messages) : failingJobs(account, other) = call.ret

\* C38, amended: among most recent reports of equal date the one passed
\* last decides, and the result does not depend on the order of the
\* messages when no job has two most recent reports.
C38_LatestReportDecides ==
  (call # <<>> /\ call.fn = "failingJobs") =>
    LET account == call.arg.account
        messages == call.arg.messages
    IN /\ call.ret = {nm \in {"j1", "j2"} :
                         /\ LatestReports(account, messages, nm) # {}
                         /\ SaysFailed(messages,
                                       PassedLast(LatestReports(account, messages, nm)))}
       /\ (\A nm \in {"j1", "j2"} :
             Cardinality(LatestReports(account, messages, nm)) <= 1) =>
            \A other \in Reordered(messages) : failingJobs(account, other) = call.ret

\* a job with an older failed report and a newer one that is not, passed
\* newest first, and a job whose two most recent reports disagree
C38_Witness ==
  /\ call # <<>>
  /\ call.fn = "failingJobs"
  /\ LET account == call.arg.account
         messages == call.arg.messages
     IN \/ /\ Len(messages) = 2
           /\ messages[1].Author = account /\ messages[2].Author = account
           /\ messages[1].Date > messages[2].Date
           /\ messages[1].Report = <<<<[Name |-> "j1", State |-> <<"o", "k">>]>>>>
           /\ messages[2].Report = <<<<[Name |-> "j1", State |-> failure]>>>>
           /\ call.ret = {}
        \/ /\ Cardinality(LatestReports(account, messages, "j2")) = 2
           /\ \E e \in LatestReports(account, messages, "j2") : SaysFailed(messages, e)
           /\ \E e \in LatestReports(account, messages, "j2") : ~SaysFailed(messages, e)

\* --------------------------------------------------- the last sync times
\* the Updated times of the changes that QueryChanges returned for the
\* project of the instance
UpdatedTimes(queried, instance, project) ==
  {queried[instance][k].Updated :
     k \in {n \in 1..Len(queried[instance]) :
              queried[instance][n].Project = project}}

\* the largest time of a set of times that is not empty
Latest(times) == CHOOSE t \in times : \A o \in times : o <= t

\* C39: the state that Sync passes to tracker.Update holds, for every
\* instance and project, a time that is never earlier than the time in
\* tracker.Current() and is the maximum of that time and of the Updated
\* times of all changes returned for the project; from one Sync call to
\* the next the last-sync time that the tracker keeps for a project never
\* decreases.
C39_SyncTimesAreMaxima ==
  /\ [](call # <<>> =>
          \A instance \in DOMAIN call.arg.syncTime :
            LET current == call.arg.syncTime[instance]
                passed == call.ret.latest[instance]
                times(project) ==
                  UpdatedTimes(call.arg.queried, instance, project) \cup
                  (IF project \in DOMAIN current THEN {current[project]} ELSE {})
            IN /\ DOMAIN call.ret.latest = DOMAIN call.arg.syncTime
               /\ DOMAIN passed = {project \in {"p", "q"} : times(project) # {}}
               /\ \A project \in DOMAIN passed :
                    passed[project] = Latest(times(project))
               /\ \A project \in DOMAIN current :
                    passed[project] >= current[project])
  /\ [][(call # <<>> /\ call' # <<>>) =>
          \A instance \in DOMAIN call.tracker :
            \A project \in DOMAIN call.tracker[instance] :
              /\ project \in DOMAIN call'.tracker[instance]
              /\ call'.tracker[instance][project] >= call.tracker[instance][project]]_vars

\* a second Sync that moves a project from 1 to 3 although the changes
\* that it reads are updated at 3 and then at 1
C39_Witness ==
  /\ call # <<>>
  /\ call.fn = "Sync"
  /\ call.again
  /\ \E instance \in DOMAIN call.arg.queried :
       LET changes == call.arg.queried[instance]
       IN /\ Len(changes) = 2
          /\ changes[1].Project = "p" /\ changes[1].Updated = 3
          /\ changes[2].Project = "p" /\ changes[2].Updated = 1
          /\ "p" \in DOMAIN call.arg.syncTime[instance]
          /\ call.arg.syncTime[instance]["p"] = 1
          /\ call.ret.latest[instance]["p"] = 3
          /\ call.tracker[instance]["p"] = 3

\* the changes of a Sync call for which ProcessChange returns an error
FailedChanges ==
  {w \in {<<instance, k>> : instance \in DOMAIN call.arg.queried, k \in 1..MaxChanges} :
     /\ w[2] <= Len(call.arg.queried[w[1]])
     /\ ProcessChange(w[1], call.arg.queried[w[1]][w[2]]) # "nil"}

\* C40: when ProcessChange returns an error for a change, Sync still
\* hands every change of every instance to ProcessChange, once and in the
\* order of its instance, the time passed to tracker.Update for the
\* project of the failed change is not before the Updated time of that
\* change, and Sync returns what tracker.Update returns.
C40_FailedChangeStillCounts ==
  (call # <<>> /\ FailedChanges # {}) =>
    LET queried == call.arg.queried
        processed == call.ret.processed
        all == {w \in {<<instance, k>> : instance \in DOMAIN queried, k \in 1..MaxChanges} :
                  w[2] <= Len(queried[w[1]])}
    IN /\ {processed[n] : n \in 1..Len(processed)} = all
       /\ Len(processed) = Cardinality(all)
       /\ \A n, m \in 1..Len(processed) :
            (n < m /\ processed[n][1] = processed[m][1]) =>
              processed[n][2] < processed[m][2]
       /\ {call.ret.logged[n] : n \in 1..Len(call.ret.logged)} = FailedChanges
       /\ \A w \in FailedChanges :
            LET change == queried[w[1]][w[2]]
            IN /\ change.Project \in DOMAIN call.ret.latest[w[1]]
               /\ call.ret.latest[w[1]][change.Project] >= change.Updated
       /\ call.ret.ret = call.update

\* a Sync whose first change fails in ProcessChange, on a branch that the
\* client does not know, and moves its project from 2 to 3, with a second
\* change behind it and an Update that succeeds
C40_Witness ==
  /\ call # <<>>
  /\ call.fn = "Sync"
  /\ \E instance \in DOMAIN call.arg.queried :
       LET changes == call.arg.queried[instance]
       IN /\ Len(changes) = 2
          /\ <<instance, 1>> \in FailedChanges
          /\ <<instance, 2>> \notin FailedChanges
          /\ changes[1].Branch = "gone"
          /\ changes[1].Project = "p"
          /\ "p" \in DOMAIN call.arg.syncTime[instance]
          /\ call.arg.syncTime[instance]["p"] = 2
          /\ call.ret.latest[instance]["p"] = 3
          /\ Len(call.ret.processed) = 2
          /\ call.ret.ret = "nil"

====
